---- MODULE Spec2Model ----
(***************************************************************************)
(* Model of the Confluence hierarchy synchronizer of the                   *)
(* obsidian-confluence-sync plugin (src/obsidian-confluence-sync/main.ts): *)
(* uploadToConfluence, ensureFolderHierarchy, findExistingPage,            *)
(* findArchivedPage, createPage, updatePage and the placeholder loops,     *)
(* run against a remote page store.  One action is one transport           *)
(* round-trip (an await in the source) together with the code that         *)
(* follows it up to the next await.                                        *)
(***************************************************************************)
EXTENDS Integers, Sequences, FiniteSets, TLC

(***************************************************************************)
(* Bounds of the model.                                                    *)
(***************************************************************************)
MaxInitPages == 2
MaxPathLen == 2
MaxBlocks == 2
MaxImages == 11
MaxInterPages == 1
MaxInterPath == 1
MaxSyncPages == 1
MaxSyncPath == 2
MaxLines == 2
MaxCodeLines == 2
MaxListLines == 3
MaxOrderPages == 1
MaxOrderPath == 2
MaxOrderBlocks == 2
MaxResults == 2

Runs == {1, 2}

FolderNames == {"Tech", "RnD"}
LeafTitles == {"Note"}
RemoteTitles == FolderNames \cup LeafTitles
ImageFiles == {"a.png"}

NoPage == 0

(***************************************************************************)
(* Small helpers on sequences.                                             *)
(***************************************************************************)
RECURSIVE Concat(_)
Concat(ss) == IF ss = <<>> THEN <<>> ELSE Head(ss) \o Concat(Tail(ss))

RECURSIVE Digits(_)
\* decimal rendering of ${n} in a template string
Digits(n) ==
  LET d == <<"0", "1", "2", "3", "4", "5", "6", "7", "8", "9">>
  IN IF n < 10 THEN <<d[n + 1]>> ELSE Digits(n \div 10) \o <<d[(n % 10) + 1]>>

CountIn(s, n, P(_)) == Cardinality({j \in 1..n : P(s[j])})

(***************************************************************************)
(* The remote page store (Confluence).  A page's id is its index.          *)
(***************************************************************************)
Null == [id |-> NoPage, title |-> "", status |-> "", version |-> 0, ancestors |-> <<>>]

RECURSIVE Ancestors(_, _, _)
\* the ancestors expansion of a page: root first, immediate parent last
Ancestors(pgs, id, fuel) ==
  IF fuel = 0 \/ pgs[id].parent = NoPage THEN <<>>
  ELSE Ancestors(pgs, pgs[id].parent, fuel - 1) \o <<pgs[id].parent>>

AsResponse(pgs, id) ==
  [id |-> id, title |-> pgs[id].title, status |-> pgs[id].status,
   version |-> pgs[id].version, ancestors |-> Ancestors(pgs, id, Len(pgs))]

\* GET content?title=..&status=..: every page of that title and status
Search(pgs, title, status) ==
  SelectSeq([k \in 1..Len(pgs) |-> AsResponse(pgs, k)],
            LAMBDA p : p.title = title /\ p.status = status)

\* POST content: the store appends a page with version 1
RemoteCreate(pgs, req) ==
  Append(pgs, [title |-> req.title, status |-> "current", parent |-> req.parent,
               version |-> 1, body |-> req.body])

\* a store that takes an update whatever version it submits
RemoteAcceptsAnyVersion(pgs, req) ==
  req.hasAncestors =>
    /\ req.parent # req.id
    /\ \A j \in 1..Len(Ancestors(pgs, req.parent, Len(pgs))) :
         Ancestors(pgs, req.parent, Len(pgs))[j] # req.id

\* PUT content/id: accepted only with version = current + 1 and, when the
\* request carries ancestors, a parent that is neither the page itself nor
\* below it (the space stays a tree)
RemoteAccepts(pgs, req) ==
  /\ req.version = pgs[req.id].version + 1
  /\ req.hasAncestors =>
       /\ req.parent # req.id
       /\ \A j \in 1..Len(Ancestors(pgs, req.parent, Len(pgs))) :
            Ancestors(pgs, req.parent, Len(pgs))[j] # req.id

\* the parent changes only when the request carries ancestors

RemoteUpdate(pgs, req) ==
  [pgs EXCEPT ![req.id] =
     [title |-> req.title, status |-> @.status,
      parent |-> IF req.hasAncestors THEN req.parent ELSE @.parent,
      version |-> req.version, body |-> req.body]]

(***************************************************************************)
(* Pure parts of the plugin.                                               *)
(***************************************************************************)
\* findExistingPage that compares the first ancestor (the space's top
\* page) instead of the last
FindExistingPageFirstAncestor(resp, parentId) ==
  IF resp.outcome # "ok" THEN [fatal |-> TRUE, page |-> Null]
  ELSE LET activePages == SelectSeq(resp.results, LAMBDA p : p.status # "archived")
           matches == SelectSeq(activePages,
                        LAMBDA p : Len(p.ancestors) > 0 /\ p.ancestors[1] = parentId)
       IN [fatal |-> FALSE,
           page |-> IF Len(activePages) = 0 THEN Null
                    ELSE IF parentId = NoPage THEN activePages[1]
                    ELSE IF Len(matches) > 0 THEN matches[1] ELSE Null]

\* findExistingPage that does not filter the archived results out
FindExistingPageKeepsArchived(resp, parentId) ==
  IF resp.outcome # "ok" THEN [fatal |-> TRUE, page |-> Null]
  ELSE LET matches == SelectSeq(resp.results,
                        LAMBDA p : Len(p.ancestors) > 0
                                   /\ p.ancestors[Len(p.ancestors)] = parentId)
       IN [fatal |-> FALSE,
           page |-> IF Len(resp.results) = 0 THEN Null
                    ELSE IF parentId = NoPage THEN resp.results[1]
                    ELSE IF Len(matches) > 0 THEN matches[1] ELSE Null]

\* findExistingPage, after the response arrived: a thrown request and a
\* non-200 status are both thrown on; otherwise the archived results are
\* filtered out, a null parentId takes the first page, a given parentId
\* takes the first page whose last ancestor is that id
FindExistingPage(resp, parentId) ==
  IF resp.outcome # "ok" THEN [fatal |-> TRUE, page |-> Null]
  ELSE LET activePages == SelectSeq(resp.results, LAMBDA p : p.status # "archived")
           matches == SelectSeq(activePages,
                        LAMBDA p : Len(p.ancestors) > 0
                                   /\ p.ancestors[Len(p.ancestors)] = parentId)
       IN [fatal |-> FALSE,
           page |-> IF Len(activePages) = 0 THEN Null
                    ELSE IF parentId = NoPage THEN activePages[1]
                    ELSE IF Len(matches) > 0 THEN matches[1] ELSE Null]

\* findArchivedPage that drops the results of the archived search
FindArchivedPageDropsResults(resp) ==
  [fatal |-> resp.outcome = "throw", page |-> Null]

\* findArchivedPage: a thrown request propagates, a non-200 status is
\* answered with null, otherwise the first result
FindArchivedPage(resp) ==
  IF resp.outcome = "throw" THEN [fatal |-> TRUE, page |-> Null]
  ELSE IF resp.outcome = "non200" THEN [fatal |-> FALSE, page |-> Null]
  ELSE [fatal |-> FALSE,
        page |-> IF Len(resp.results) = 0 THEN Null ELSE resp.results[1]]

\* createPage that sends ancestors whatever parentId is
CreatePageAlwaysAncestors(title, content, parentId) ==
  [title |-> title, body |-> content, hasAncestors |-> TRUE, parent |-> parentId]

\* createPage that never sends ancestors
CreatePageNoAncestors(title, content, parentId) ==
  [title |-> title, body |-> content, hasAncestors |-> FALSE, parent |-> NoPage]

\* the request body createPage builds
CreatePage(title, content, parentId) ==
  [title |-> title, body |-> content,
   hasAncestors |-> parentId # NoPage, parent |-> parentId]

\* updatePage that never sends ancestors
UpdatePageNoAncestors(pageId, title, content, currentVersion, parentId) ==
  [id |-> pageId, title |-> title, body |-> content,
   version |-> currentVersion + 1,
   hasAncestors |-> FALSE, parent |-> parentId]

\* updatePage that submits the version it was given
UpdatePageSameVersion(pageId, title, content, currentVersion, parentId) ==
  [id |-> pageId, title |-> title, body |-> content,
   version |-> currentVersion,
   hasAncestors |-> parentId # NoPage, parent |-> parentId]

\* the request body updatePage builds
UpdatePage(pageId, title, content, currentVersion, parentId) ==
  [id |-> pageId, title |-> title, body |-> content,
   version |-> currentVersion + 1,
   hasAncestors |-> parentId # NoPage, parent |-> parentId]

FolderBody == <<"<p>This page represents a folder in your Obsidian vault.</p>">>

(***************************************************************************)
(* Placeholders.  A body is a sequence of text fragments; the digits of a  *)
(* placeholder index are fragments of their own.                           *)
(***************************************************************************)
MermaidFilename(n) == <<"MERMAID-PLACEHOLDER-">> \o Digits(n) \o <<".svg">>
MermaidToken(n) == <<"!">> \o MermaidFilename(n)
ImagePlaceholder(n) == <<"IMAGE-ATTACHMENT-">> \o Digits(n)
\* an embed macro that names another file than the one uploaded
AttachmentMacroOtherFile(filename) ==
  <<"<ac:image ac:width=500><ri:attachment ri:filename=">> \o <<"other.png">>
  \o <<"/></ac:image>">>

AttachmentMacro(filename) ==
  <<"<ac:image ac:width=500><ri:attachment ri:filename=">> \o filename \o <<"/></ac:image>">>

IsMermaid(b) == b = "mermaid"
IsImage(b) == b \in ImageFiles

\* the two extraction passes of uploadToConfluence: block n of the
\* document after both replacements
ProcessedBlock(blocks, n) ==
  IF IsMermaid(blocks[n]) THEN MermaidToken(CountIn(blocks, n - 1, IsMermaid))
  ELSE IF IsImage(blocks[n]) THEN ImagePlaceholder(CountIn(blocks, n - 1, IsImage))
  ELSE <<blocks[n]>>

MermaidBlocks(blocks) ==
  [n \in 1..CountIn(blocks, Len(blocks), IsMermaid) |->
     [filename |-> MermaidFilename(n - 1)]]

ImageAttachments(blocks) ==
  LET imgs == SelectSeq(blocks, IsImage)
  IN [n \in 1..Len(imgs) |->
        [filename |-> <<imgs[n]>>, placeholder |-> ImagePlaceholder(n - 1)]]

\* convertMarkdownToConfluence on blocks of plain text and placeholder
\* tokens separated by blank lines: every blank-line run becomes </p><p>
\* and the last line gets a closing </p>
ConvertMarkdownToConfluence(blocks) ==
  Concat([n \in 1..Len(blocks) |->
            ProcessedBlock(blocks, n)
            \o (IF n < Len(blocks) THEN <<"</p>", "<p>">> ELSE <<"</p>">>)])

MatchAt(s, i, pat) ==
  /\ i + Len(pat) - 1 <= Len(s)
  /\ \A j \in 1..Len(pat) : s[i + j - 1] = pat[j]

RECURSIVE ReplaceFrom(_, _, _, _)
\* String.replace with the global pattern (<p>)?pat(</p>)?
ReplaceFrom(s, i, pat, macro) ==
  IF i > Len(s) THEN <<>>
  ELSE LET start == IF s[i] = "<p>" /\ MatchAt(s, i + 1, pat) THEN i + 1 ELSE i
       IN IF MatchAt(s, start, pat)
          THEN LET e == start + Len(pat)
                   next == IF e <= Len(s) /\ s[e] = "</p>" THEN e + 1 ELSE e
               IN macro \o ReplaceFrom(s, next, pat, macro)
          ELSE <<s[i]>> \o ReplaceFrom(s, i + 1, pat, macro)

\* a replacement whose result is dropped
ReplacePlaceholderDropped(content, pat, macro) == content

ReplacePlaceholder(content, pat, macro) == ReplaceFrom(content, 1, pat, macro)

(***************************************************************************)
(* The transcoder on markdown texts.  A text is a sequence of lexemes:     *)
(* "\n" is a line break, a fence, a marker or a bracket is a lexeme of its *)
(* own, and a run of characters that no stage looks into is one lexeme.    *)
(* The backtick is written ' in the lexemes: a fence is "'''".             *)
(***************************************************************************)
\* lexemes made of word characters only (the \w* after a fence)
WordLexemes == {"python", "mermaid"}

\* lexemes whose last character is ">" (tags written by the stages)
EndsWithGt(tok) ==
  tok \in {"<p>", "</p>", "<hr/>", "]]>", "/>",
           "</h1>", "<h1>", "<ul>", "</ul>", "<ol>", "</ol>", "<li>", "</li>",
           "<table><tbody>", "</tbody></table>", "<tr>", "</tr>", "<th>", "</th>",
           "<td>", "</td>", "<blockquote>", "</blockquote>",
           "<strong>", "</strong>", "<em>", "</em>", "<s>", "</s>", "<code>", "</code>", "</a>",
           "<a href=http://u>", "<ac:image>", "</ac:image>",
           "<ri:url ri:value=http://u/i.png />",
           "<ac:link>", "</ac:link>", "<ac:plain-text-link-body>",
           "</ac:plain-text-link-body>",
           "<ac:structured-macro ac:name=code>", "</ac:structured-macro>",
           "<ac:parameter ac:name=language>", "</ac:parameter>",
           "<ac:plain-text-body>", "</ac:plain-text-body>",
           "<ac:task>", "</ac:task>", "<ac:task-status>", "</ac:task-status>",
           "<ac:task-body>", "</ac:task-body>",
           "<ac:image ac:width=500><ri:attachment ri:filename=", "/></ac:image>"}

RECURSIVE IndexFrom(_, _, _)
\* the first position from i on that holds tok, 0 when there is none
IndexFrom(t, i, tok) ==
  IF i > Len(t) THEN 0
  ELSE IF t[i] = tok THEN i ELSE IndexFrom(t, i + 1, tok)

RECURSIVE IndexInLine(_, _, _)
\* the same within the line of position i
IndexInLine(t, i, tok) ==
  IF i > Len(t) \/ t[i] = "\n" THEN 0
  ELSE IF t[i] = tok THEN i ELSE IndexInLine(t, i + 1, tok)

RECURSIVE SplitLines(_)
\* text.split('\n')
SplitLines(t) ==
  LET nl == IndexFrom(t, 1, "\n")
  IN IF nl = 0 THEN <<t>>
     ELSE <<SubSeq(t, 1, nl - 1)>> \o SplitLines(SubSeq(t, nl + 1, Len(t)))

RECURSIVE JoinLines(_)
\* lines.join('\n')
JoinLines(ls) ==
  IF Len(ls) = 0 THEN <<>>
  ELSE IF Len(ls) = 1 THEN ls[1]
  ELSE ls[1] \o <<"\n">> \o JoinLines(Tail(ls))

\* a replace(/^...$/gm, f): f on every line
OnLines(t, F(_)) == JoinLines([j \in 1..Len(SplitLines(t)) |-> F(SplitLines(t)[j])])

RECURSIVE ExtractMermaid(_, _, _)
\* uploadToConfluence: /'''mermaid\n([\s\S]+?)'''/g becomes the token of
\* the n-th diagram
ExtractMermaid(t, i, n) ==
  IF i > Len(t) THEN <<>>
  ELSE LET close == IF /\ i + 3 <= Len(t)
                       /\ t[i] = "'''" /\ t[i + 1] = "mermaid" /\ t[i + 2] = "\n"
                    THEN IndexFrom(t, i + 4, "'''") ELSE 0
       IN IF close > 0 THEN MermaidToken(n) \o ExtractMermaid(t, close + 1, n + 1)
          ELSE <<t[i]>> \o ExtractMermaid(t, i + 1, n)

RECURSIVE ExtractImages(_, _, _)
\* uploadToConfluence: /!\[\[([^\]]+\.(png|jpe?g))\]\]/gi becomes the
\* placeholder of the n-th image
ExtractImages(t, i, n) ==
  IF i > Len(t) THEN <<>>
  ELSE IF /\ i + 3 <= Len(t)
          /\ t[i] = "!" /\ t[i + 1] = "[[" /\ t[i + 2] \in ImageFiles /\ t[i + 3] = "]]"
       THEN ImagePlaceholder(n) \o ExtractImages(t, i + 4, n + 1)
       ELSE <<t[i]>> \o ExtractImages(t, i + 1, n)

\* convertDataviewJsTags: a dataviewjs tag block becomes its hashtags
DataviewBlock == "'''dataviewjs dv.view('t', { tags:['TI'] })'''"

ConvertDataviewJsTags(t) ==
  [j \in 1..Len(t) |-> IF t[j] = DataviewBlock THEN "#TI" ELSE t[j]]

\* the names a wiki-link can hold: no "]" and no "|" in them
LinkNames == {"Note"} \cup ImageFiles

LinkMacro(name) ==
  <<"<ac:link>", "<ri:page ri:content-title=", name, "/>",
    "<ac:plain-text-link-body>", "<![CDATA[", name, "]]>",
    "</ac:plain-text-link-body>", "</ac:link>">>

RECURSIVE ConvertWikiLinksFrom(_, _)
ConvertWikiLinksFrom(t, i) ==
  IF i > Len(t) THEN <<>>
  ELSE IF /\ i + 2 <= Len(t)
          /\ t[i] = "[[" /\ t[i + 1] \in LinkNames /\ t[i + 2] = "]]"
       THEN LinkMacro(t[i + 1]) \o ConvertWikiLinksFrom(t, i + 3)
       ELSE <<t[i]>> \o ConvertWikiLinksFrom(t, i + 1)

\* convertWikiLinks: [[path]] becomes a link to the page of that title
ConvertWikiLinks(t) == ConvertWikiLinksFrom(t, 1)

\* removeInlineIcons: ![..](attachments/..) is removed
IconImage == "![icon](attachments/i.png)"

RemoveInlineIcons(t) == SelectSeq(t, LAMBDA tok : tok # IconImage)

\* convertHeadings: /^(#+) (.+)$/gm, here for one hash
HeadingLine(line) ==
  IF Len(line) >= 2 /\ line[1] = "# "
  THEN <<"<h1>">> \o Tail(line) \o <<"</h1>">>
  ELSE line

ConvertHeadings(t) == OnLines(t, HeadingLine)

CodeMacro(language, code) ==
  <<"<ac:structured-macro ac:name=code>", "<ac:parameter ac:name=language>",
    language, "</ac:parameter>", "<ac:plain-text-body>", "<![CDATA[">>
  \o code
  \o <<"]]>", "</ac:plain-text-body>", "</ac:structured-macro>">>

RECURSIVE ConvertCodeBlocksFrom(_, _)
ConvertCodeBlocksFrom(t, i) ==
  IF i > Len(t) THEN <<>>
  ELSE LET start == IF t[i] # "'''" THEN 0
                    ELSE IF /\ i + 2 <= Len(t)
                            /\ t[i + 1] \in WordLexemes /\ t[i + 2] = "\n"
                         THEN i + 3
                    ELSE IF i + 1 <= Len(t) /\ t[i + 1] = "\n" THEN i + 2
                    ELSE 0
           close == IF start > 0 THEN IndexFrom(t, start + 1, "'''") ELSE 0
       IN IF close > 0
          THEN CodeMacro(IF start = i + 3 THEN t[i + 1] ELSE "none",
                         SubSeq(t, start, close - 1))
               \o ConvertCodeBlocksFrom(t, close + 1)
          ELSE <<t[i]>> \o ConvertCodeBlocksFrom(t, i + 1)

\* convertCodeBlocks: /'''(\w*)\n([\s\S]+?)'''/g becomes a code macro with
\* the language, "none" without one, and everything up to the closing
\* fence as its body
ConvertCodeBlocks(t) == ConvertCodeBlocksFrom(t, 1)

\* convertImages: ![alt](url) becomes an image macro of the url
UrlImage == "![alt](http://u/i.png)"

ConvertImages(t) ==
  Concat([j \in 1..Len(t) |->
            IF t[j] = UrlImage
            THEN <<"<ac:image>", "<ri:url ri:value=http://u/i.png />", "</ac:image>">>
            ELSE <<t[j]>>])

\* the cell of a one-cell table row
RowCells == [r \in {"|h|", "|-|", "|c|"} |->
               IF r = "|h|" THEN "h" ELSE IF r = "|-|" THEN "-" ELSE "c"]

RECURSIVE TableRowsEnd(_, _)
\* the end of the longest run of rows from i on, each row followed by one
\* or more line breaks; i - 1 when position i starts no such row
TableRowsEnd(t, i) ==
  IF i + 1 <= Len(t) /\ t[i] \in DOMAIN RowCells /\ t[i + 1] = "\n"
  THEN LET skip[j \in 1..(Len(t) + 1)] ==
             IF j <= Len(t) /\ t[j] = "\n" THEN skip[j + 1] ELSE j
           next == skip[i + 1]
       IN IF TableRowsEnd(t, next) >= next THEN TableRowsEnd(t, next) ELSE next - 1
  ELSE i - 1

RECURSIVE TrimEnd(_)
\* match.trim(): the line breaks at the end of a match are dropped
TrimEnd(t) ==
  IF Len(t) > 0 /\ t[Len(t)] = "\n" THEN TrimEnd(SubSeq(t, 1, Len(t) - 1)) ELSE t

\* the table written for the rows of a match: the second row is skipped,
\* the first row is the header, and an empty line between two rows is a
\* row of no cells
TableHtml(rows) ==
  <<"<table><tbody>">>
  \o Concat([j \in 1..Len(rows) |->
               IF j = 2 THEN <<>>
               ELSE <<"<tr>">>
                    \o Concat([k \in 1..Len(rows[j]) |->
                                 IF j = 1 THEN <<"<th>", RowCells[rows[j][k]], "</th>">>
                                 ELSE <<"<td>", RowCells[rows[j][k]], "</td>">>])
                    \o <<"</tr>">>])
  \o <<"</tbody></table>", "\n">>

RECURSIVE ConvertTablesFrom(_, _)
ConvertTablesFrom(t, i) ==
  IF i > Len(t) THEN <<>>
  ELSE LET atLineStart == i = 1 \/ t[i - 1] = "\n"
           e == IF atLineStart THEN TableRowsEnd(t, i) ELSE i - 1
       IN IF e >= i
          THEN TableHtml(SplitLines(TrimEnd(SubSeq(t, i, e))))
               \o ConvertTablesFrom(t, e + 1)
          ELSE <<t[i]>> \o ConvertTablesFrom(t, i + 1)

\* convertTables: /^((?:\|.+\|[\r\n]+)+)/gm becomes a table and one line
\* break
ConvertTables(t) == ConvertTablesFrom(t, 1)

TaskMacro(status, body) ==
  <<"<ac:task>", "<ac:task-status>", status, "</ac:task-status>", "<ac:task-body>">>
  \o body
  \o <<"</ac:task-body>", "</ac:task>">>

\* the checkboxes /^- \[([ x])\] (.+)$/ takes
TaskLine(line) ==
  IF Len(line) >= 3 /\ line[1] = "- " /\ line[2] \in {"[x] ", "[ ] "}
  THEN TaskMacro(IF line[2] = "[x] " THEN "complete" ELSE "incomplete",
                 SubSeq(line, 3, Len(line)))
  ELSE line

\* convertTaskLists: /^- \[([ x])\] (.+)$/gm becomes a task macro
ConvertTaskLists(t) == OnLines(t, TaskLine)

RECURSIVE WrapPairs(_, _, _, _, _)
\* replace(/MARK(.+?)MARK/g, OPEN $1 CLOSE) for a marker lexeme: the
\* marker, one or more lexemes of the same line, the marker
WrapPairs(t, i, mark, open, close) ==
  IF i > Len(t) THEN <<>>
  ELSE LET j == IF t[i] = mark /\ i < Len(t) /\ t[i + 1] # "\n"
                THEN IndexInLine(t, i + 2, mark) ELSE 0
       IN IF j > 0
          THEN <<open>> \o SubSeq(t, i + 1, j - 1) \o <<close>>
               \o WrapPairs(t, j + 1, mark, open, close)
          ELSE <<t[i]>> \o WrapPairs(t, i + 1, mark, open, close)

\* lexemes of white space
WhiteSpace == {"\n", " ", "  "}

RECURSIVE EmClose(_, _, _)
\* the first marker from j on, in the line, that no white space precedes
EmClose(t, j, mark) ==
  IF j > Len(t) \/ t[j] = "\n" THEN 0
  ELSE IF t[j] = mark /\ t[j - 1] \notin WhiteSpace THEN j
  ELSE EmClose(t, j + 1, mark)

RECURSIVE WrapEm(_, _, _)
\* replace(/MARK(?!\s)(.+?)(?<!\s)MARK/g, '<em>$1</em>')
WrapEm(t, i, mark) ==
  IF i > Len(t) THEN <<>>
  ELSE LET j == IF t[i] = mark /\ i < Len(t) /\ t[i + 1] \notin WhiteSpace
                THEN EmClose(t, i + 2, mark) ELSE 0
       IN IF j > 0
          THEN <<"<em>">> \o SubSeq(t, i + 1, j - 1) \o <<"</em>">>
               \o WrapEm(t, j + 1, mark)
          ELSE <<t[i]>> \o WrapEm(t, i + 1, mark)

\* convertTextFormatting: the bold markers ** and __, then the italic
\* markers * and _ (the texts hold no *** and no ___)
ConvertTextFormatting(t) ==
  WrapEm(WrapEm(WrapPairs(WrapPairs(t, 1, "**", "<strong>", "</strong>"),
                          1, "__", "<strong>", "</strong>"),
                1, "*"),
         1, "_")

\* convertStrikethrough: ~~text~~
ConvertStrikethrough(t) == WrapPairs(t, 1, "~~", "<s>", "</s>")

\* convertLinks: [text](url) becomes an anchor
UrlLink == "[t](http://u)"

ConvertLinks(t) ==
  Concat([j \in 1..Len(t) |->
            IF t[j] = UrlLink THEN <<"<a href=http://u>", "t", "</a>">> ELSE <<t[j]>>])

RECURSIVE ConvertInlineCodeFrom(_, _)
ConvertInlineCodeFrom(t, i) ==
  IF i > Len(t) THEN <<>>
  ELSE LET j == IF t[i] = "'" THEN IndexFrom(t, i + 2, "'") ELSE 0
       IN IF j > 0
          THEN <<"<code>">> \o SubSeq(t, i + 1, j - 1) \o <<"</code>">>
               \o ConvertInlineCodeFrom(t, j + 1)
          ELSE <<t[i]>> \o ConvertInlineCodeFrom(t, i + 1)

\* convertInlineCode: a backtick, anything but a backtick (line breaks
\* too), a backtick
ConvertInlineCode(t) == ConvertInlineCodeFrom(t, 1)

HrLine(line) == IF line = <<"---">> THEN <<"<hr/>">> ELSE line

\* convertHorizontalRules: /^---+$/gm
ConvertHorizontalRules(t) == OnLines(t, HrLine)

QuoteLine(line) ==
  IF Len(line) >= 2 /\ line[1] = "> "
  THEN <<"<blockquote>", "<p>">> \o Tail(line) \o <<"</p>", "</blockquote>">>
  ELSE line

RECURSIVE MergeQuotes(_, _)
\* replace(/<\/blockquote>\s*<blockquote>/g, '')
MergeQuotes(t, i) ==
  IF i > Len(t) THEN <<>>
  ELSE LET skip[j \in 1..(Len(t) + 1)] ==
             IF j <= Len(t) /\ t[j] = "\n" THEN skip[j + 1] ELSE j
           next == IF t[i] = "</blockquote>" THEN skip[i + 1] ELSE 0
       IN IF next > 0 /\ next <= Len(t) /\ t[next] = "<blockquote>"
          THEN MergeQuotes(t, next + 1)
          ELSE <<t[i]>> \o MergeQuotes(t, i + 1)

\* convertBlockquotes: /^> (.+)$/gm, then adjacent quotes are merged
ConvertBlockquotes(t) == MergeQuotes(OnLines(t, QuoteLine), 1)

RECURSIVE IndentOf(_)
\* the length of the leading white space of a line, in indent lexemes
IndentOf(line) ==
  IF Len(line) > 0 /\ line[1] = "  " THEN 1 + IndentOf(Tail(line)) ELSE 0

\* line.trim(), the white space being leading indents
Trimmed(line) == SubSeq(line, IndentOf(line) + 1, Len(line))

\* /^(\s*)\d+\. (.+)$/ and /^(\s*)[*-] (.+)$/
OlMatch(line) == Len(Trimmed(line)) >= 2 /\ Trimmed(line)[1] = "1. "
UlMatch(line) == Len(Trimmed(line)) >= 2 /\ Trimmed(line)[1] \in {"- ", "* "}

\* the (.+) of a list line
ItemText(line) == Tail(Trimmed(line))

RECURSIVE NestedItems(_, _, _)
\* the nested bullets from line i on, indented by baseIndent or more
NestedItems(ls, i, baseIndent) ==
  IF /\ i <= Len(ls) /\ IndentOf(ls[i]) > 0 /\ UlMatch(ls[i])
     /\ IndentOf(ls[i]) >= baseIndent
  THEN LET rest == NestedItems(ls, i + 1, baseIndent)
       IN [html |-> <<"<li>">> \o ItemText(ls[i]) \o <<"</li>">> \o rest.html,
           i |-> rest.i]
  ELSE [html |-> <<>>, i |-> i]

RECURSIVE ItemTail(_, _)
\* what follows the first line of an ordered item: nested bullets,
\* indented continuation lines, empty lines
ItemTail(ls, i) ==
  IF i > Len(ls) THEN [html |-> <<>>, i |-> i]
  ELSE IF OlMatch(ls[i]) /\ IndentOf(ls[i]) = 0 THEN [html |-> <<>>, i |-> i]
  ELSE IF Trimmed(ls[i]) # <<>> /\ IndentOf(ls[i]) = 0 THEN [html |-> <<>>, i |-> i]
  ELSE IF IndentOf(ls[i]) > 0 /\ UlMatch(ls[i])
       THEN LET nested == NestedItems(ls, i, IndentOf(ls[i]))
                rest == ItemTail(ls, nested.i)
            IN [html |-> <<"<ul>">> \o nested.html \o <<"</ul>">> \o rest.html,
                i |-> rest.i]
  ELSE IF Trimmed(ls[i]) # <<>>
       THEN LET rest == ItemTail(ls, i + 1)
            IN [html |-> <<" ">> \o Trimmed(ls[i]) \o rest.html, i |-> rest.i]
  ELSE ItemTail(ls, i + 1)

RECURSIVE OrderedItems(_, _)
OrderedItems(ls, i) ==
  IF i <= Len(ls) /\ OlMatch(ls[i]) /\ IndentOf(ls[i]) = 0
  THEN LET tail == ItemTail(ls, i + 1)
           rest == OrderedItems(ls, tail.i)
       IN [html |-> <<"<li>">> \o ItemText(ls[i]) \o tail.html \o <<"</li>">>
                    \o rest.html,
           i |-> rest.i]
  ELSE [html |-> <<>>, i |-> i]

RECURSIVE UnorderedItems(_, _)
UnorderedItems(ls, i) ==
  IF i <= Len(ls) /\ UlMatch(ls[i]) /\ IndentOf(ls[i]) = 0
  THEN LET rest == UnorderedItems(ls, i + 1)
       IN [html |-> <<"<li>">> \o ItemText(ls[i]) \o <<"</li>">> \o rest.html,
           i |-> rest.i]
  ELSE [html |-> <<>>, i |-> i]

RECURSIVE ProcessedLines(_, _)
ProcessedLines(ls, i) ==
  IF i > Len(ls) THEN <<>>
  ELSE IF OlMatch(ls[i]) /\ IndentOf(ls[i]) = 0
       THEN LET items == OrderedItems(ls, i)
            IN <<(<<"<ol>">> \o items.html \o <<"</ol>">>)>> \o ProcessedLines(ls, items.i)
  ELSE IF UlMatch(ls[i]) /\ IndentOf(ls[i]) = 0
       THEN LET items == UnorderedItems(ls, i)
            IN <<(<<"<ul>">> \o items.html \o <<"</ul>">>)>> \o ProcessedLines(ls, items.i)
  ELSE <<ls[i]>> \o ProcessedLines(ls, i + 1)

\* convertLists
ConvertLists(t) == JoinLines(ProcessedLines(SplitLines(t), 1))

RECURSIVE ParagraphBreaks(_, _)
\* replace(/\n\n+/g, '</p><p>')
ParagraphBreaks(t, i) ==
  IF i > Len(t) THEN <<>>
  ELSE IF t[i] = "\n" /\ i < Len(t) /\ t[i + 1] = "\n"
       THEN LET skip[j \in 1..(Len(t) + 1)] ==
                  IF j <= Len(t) /\ t[j] = "\n" THEN skip[j + 1] ELSE j
            IN <<"</p>", "<p>">> \o ParagraphBreaks(t, skip[i])
  ELSE <<t[i]>> \o ParagraphBreaks(t, i + 1)

\* part.replace(/([^>])$/gm, '$1</p>'): a closing tag after every last
\* character of a line that is not ">", the line break that ends the part
\* included
TrailParagraph(part) ==
  Concat([j \in 1..Len(part) |->
            IF /\ j = Len(part) \/ part[j + 1] = "\n"
               /\ ~EndsWithGt(part[j])
            THEN <<part[j], "</p>">>
            ELSE <<part[j]>>])

RECURSIVE AddTrailParagraphs(_, _, _)
\* the text from i on, part starting at from: structured macros are kept
\* as they are, the parts between them get their closing tags
AddTrailParagraphs(t, from, i) ==
  IF i > Len(t) THEN TrailParagraph(SubSeq(t, from, Len(t)))
  ELSE LET close == IF t[i] = "<ac:structured-macro ac:name=code>"
                    THEN IndexFrom(t, i + 1, "</ac:structured-macro>") ELSE 0
       IN IF close > 0
          THEN TrailParagraph(SubSeq(t, from, i - 1)) \o SubSeq(t, i, close)
               \o AddTrailParagraphs(t, close + 1, close + 1)
          ELSE AddTrailParagraphs(t, from, i + 1)

\* the openings /<p>(<(?:h\d|ul|ol|table|blockquote|ac:|hr))/ looks for
OpensBlock(tok) ==
  tok \in {"<h1>", "<ul>", "<ol>", "<table><tbody>", "<blockquote>", "<hr/>",
           "<ac:image>", "<ac:link>", "<ac:plain-text-link-body>",
           "<ac:structured-macro ac:name=code>", "<ac:parameter ac:name=language>",
           "<ac:plain-text-body>", "<ac:task>", "<ac:task-status>", "<ac:task-body>",
           "<ac:image ac:width=500><ri:attachment ri:filename="}

\* the closings
\* /(<\/(?:h\d|ul|ol|table|blockquote|ac:structured-macro|hr\/)>)<\/p>/
\* looks for
ClosesBlock(tok) ==
  tok \in {"</h1>", "</ul>", "</ol>", "</tbody></table>", "</blockquote>",
           "</ac:structured-macro>"}

RECURSIVE CleanUp(_, _)
\* the three clean-up replacements, each over the result of the one before
CleanUp(t, step) ==
  LET drop == {j \in 1..Len(t) :
                 CASE step = 1 -> \/ t[j] = "<p>" /\ j < Len(t) /\ t[j + 1] = "</p>"
                                  \/ t[j] = "</p>" /\ j > 1 /\ t[j - 1] = "<p>"
                   [] step = 2 -> t[j] = "<p>" /\ j < Len(t) /\ OpensBlock(t[j + 1])
                   [] OTHER -> t[j] = "</p>" /\ j > 1 /\ ClosesBlock(t[j - 1])}
      kept == SelectSeq([j \in 1..Len(t) |-> j], LAMBDA j : j \notin drop)
      out == [j \in 1..Len(kept) |-> t[kept[j]]]
  IN IF step = 3 THEN out ELSE CleanUp(out, step + 1)

\* convertParagraphs
ConvertParagraphs(t) == CleanUp(AddTrailParagraphs(ParagraphBreaks(t, 1), 1, 1), 1)

(***************************************************************************)
(* State.                                                                  *)
(*   pages        the remote pages, indexed by id                          *)
(*   attachments  the remote attachments, (page id, filename) pairs        *)
(*   doc          the Document every run synchronizes                      *)
(*   run          per run: the locals of uploadToConfluence and            *)
(*                ensureFolderHierarchy, the position, the thrown error,   *)
(*                the transport calls issued so far, the position in       *)
(*                syncCurrentFile and the notices shown                    *)
(*   settings     the plugin settings                                      *)
(*   vault        the active file in the vault                             *)
(*   md           the transcoder at work on one markdown text              *)
(***************************************************************************)
VARIABLES pages, attachments, doc, run, settings, vault, md, lookup

vars == <<pages, attachments, doc, run, settings, vault, md, lookup>>

NoError == [kind |-> "", title |-> "", id |-> NoPage]

IdleRun ==
  [pc |-> "idle", idx |-> 0, currentParentId |-> NoPage, parentId |-> NoPage,
   existingPage |-> Null, anyPage |-> Null, page |-> Null,
   confluenceContent |-> <<>>, updatedContent |-> <<>>, k |-> 0,
   err |-> NoError, returned |-> NoPage, calls |-> <<>>,
   sync |-> "none", content |-> [has |-> FALSE, fm |-> <<>>], notices |-> <<>>]

\* one entry of run[i].calls
Call(op, stage, title, req, ok, cur) ==
  [op |-> op, stage |-> stage, title |-> title, id |-> req.id, parent |-> req.parent,
   hasAncestors |-> req.hasAncestors, version |-> req.version,
   body |-> req.body, ok |-> ok, cur |-> cur]

LookupReq(parentId) ==
  [id |-> NoPage, parent |-> parentId, hasAncestors |-> FALSE, version |-> 0, body |-> <<>>]

AttachReq(pageId, filename) ==
  [id |-> pageId, parent |-> NoPage, hasAncestors |-> FALSE, version |-> 0, body |-> filename]

\* a createPage request as a call: id is the id the store answered with
CreateReq(req, id) == req @@ [id |-> id, version |-> 0]

LookupOutcomes == {"ok", "throw", "non200"}
WriteOutcomes == {"ok", "fail"}

(***************************************************************************)
(* The local side: the settings, the active file and what the user sees.   *)
(***************************************************************************)
\* settings with which a sync can run; the domain has no trailing slash
ConfiguredSettings ==
  [domain |-> "https://wiki", username |-> "user", apiToken |-> "token",
   spaceId |-> "SPACE", addConfluenceUrl |-> TRUE]

ValidateSettingsNoSpace(s) ==
  s.domain # "" /\ s.username # "" /\ s.apiToken # ""

\* validateSettings: every one of the four strings is non-empty
ValidateSettings(s) ==
  s.domain # "" /\ s.username # "" /\ s.apiToken # "" /\ s.spaceId # ""

\* the page URL built from the settings and a page id
ConfluenceUrl(s, id) == <<s.domain, "/wiki/spaces/", s.spaceId, "/pages/", id>>

\* a frontmatter line key: value
FmLine(key, value) == [key |-> key, value |-> value]

\* the file contents of the model: no frontmatter, frontmatter without a
\* confluence line, frontmatter with one
FileContents ==
  {[has |-> FALSE, fm |-> <<>>],
   [has |-> TRUE, fm |-> <<FmLine("tags", <<"x">>)>>],
   [has |-> TRUE, fm |-> <<FmLine("confluence", <<"old">>), FmLine("tags", <<"x">>)>>]}

\* updateFrontmatter: a file without frontmatter gets one holding the
\* confluence line; the first confluence line is replaced; otherwise the
\* line is added at the end
UpdateFrontmatter(content, confluenceUrl) ==
  IF ~content.has THEN [has |-> TRUE, fm |-> <<FmLine("confluence", confluenceUrl)>>]
  ELSE LET at == {j \in 1..Len(content.fm) : content.fm[j].key = "confluence"}
       IN IF at # {}
          THEN LET first == CHOOSE j \in at : \A k \in at : j <= k
               IN [content EXCEPT !.fm[first] = FmLine("confluence", confluenceUrl)]
          ELSE [content EXCEPT !.fm = Append(@, FmLine("confluence", confluenceUrl))]

\* one notice: what it is, and the title and operation its text names
Notice(kind, title, op) == [kind |-> kind, title |-> title, op |-> op]

Noticed(r, n) == [r EXCEPT !.notices = Append(@, n)]

\* the active file before any sync wrote to it
FreshFile(content) == [active |-> TRUE, content |-> content, modified |-> 0]

\* no file is open
NoActiveFile == [active |-> FALSE, content |-> [has |-> FALSE, fm |-> <<>>], modified |-> 0]

\* the settings a sync may be triggered with: each string empty or not
SettingsInputs ==
  [domain : {"", "https://wiki"}, username : {"", "user"}, apiToken : {"", "token"},
   spaceId : {"", "SPACE"}, addConfluenceUrl : BOOLEAN]

ShouldRecordUrlAlways(s) == TRUE

\* syncCurrentFile: if (this.settings.addConfluenceUrl)
ShouldRecordUrl(s) == s.addConfluenceUrl

\* the text of a thrown error: the title and the operation it names.  A
\* request that throws in a lookup carries the transport's own text about
\* the request, to which the plugin adds nothing
ThrownMessage(err) ==
  CASE err.kind = "archived" -> Notice("error", err.title, "createPage")
    [] err.kind = "search" -> Notice("error", "", "findExistingPage")
    [] err.kind = "create" -> Notice("error", err.title, "createPage")
    [] err.kind = "update" -> Notice("error", err.title, "updatePage")
    [] OTHER -> Notice("error", "", "requestUrl")

\* no call of findExistingPage on a drawn response
IdleLookup ==
  [pc |-> "idle", outcome |-> "ok", results |-> <<>>, parentId |-> NoPage,
   returned |-> [fatal |-> FALSE, page |-> Null]]

\* the transcoder before it is given a text
IdleTranscoder == [input |-> <<>>, text |-> <<>>, stage |-> 0, applied |-> <<>>]

\* the local side of the specifications that start at uploadToConfluence
InitLocal ==
  /\ settings = ConfiguredSettings
  /\ vault = FreshFile([has |-> FALSE, fm |-> <<>>])
  /\ md = IdleTranscoder
  /\ lookup = IdleLookup

(***************************************************************************)
(* Initial states: a remote space of at most MaxInitPages pages, acyclic,  *)
(* and a Document.                                                         *)
(***************************************************************************)
InitPage(id, title, status, parent) ==
  [title |-> title, status |-> status, parent |-> parent,
   version |-> id + 1, body |-> <<"old">>]

RECURSIVE InitRemotes(_)
\* the spaces of n pages; a page's parent was created before it, and an
\* archived page is recorded at the root
InitRemotes(n) ==
  IF n = 0 THEN {<<>>}
  ELSE {Append(pgs, InitPage(n, t, "current", par)) :
          pgs \in InitRemotes(n - 1), t \in RemoteTitles, par \in 0..(n - 1)}
       \cup {Append(pgs, InitPage(n, t, "archived", NoPage)) :
          pgs \in InitRemotes(n - 1), t \in RemoteTitles}

RECURSIVE SeqsUpTo(_, _)
SeqsUpTo(S, n) ==
  IF n = 0 THEN {<<>>}
  ELSE SeqsUpTo(S, n - 1)
       \cup {Append(q, x) : q \in {r \in SeqsUpTo(S, n - 1) : Len(r) = n - 1}, x \in S}

BlockKinds == {"text", "mermaid"} \cup ImageFiles

\* documents of the hierarchy specification: one block of each kind
SpecBlocks == {<<b>> : b \in BlockKinds}

Init ==
  /\ pages \in UNION {InitRemotes(n) : n \in 0..MaxInitPages}
  /\ attachments = {}
  /\ doc \in [title : LeafTitles,
              folderPath : SeqsUpTo(FolderNames, MaxPathLen),
              blocks : SpecBlocks]
  /\ run = [i \in Runs |-> IdleRun]
  /\ InitLocal

\* the spaces without archived pages, for two runs in succession
InitTwice ==
  /\ pages \in {pgs \in UNION {InitRemotes(n) : n \in 0..MaxInitPages} :
                  \A k \in 1..Len(pgs) : pgs[k].status = "current"}
  /\ attachments = {}
  /\ doc \in [title : LeafTitles,
              folderPath : SeqsUpTo(FolderNames, MaxPathLen),
              blocks : SpecBlocks]
  /\ run = [i \in Runs |-> IdleRun]
  /\ InitLocal

\* interleaved runs: a space of at most MaxInterPages active pages, a
\* folder path of at most MaxInterPath segments, a document of plain text
InitInter ==
  /\ pages \in {pgs \in UNION {InitRemotes(n) : n \in 0..MaxInterPages} :
                  \A k \in 1..Len(pgs) : pgs[k].status = "current"}
  /\ attachments = {}
  /\ doc \in [title : LeafTitles,
              folderPath : SeqsUpTo(FolderNames, MaxInterPath),
              blocks : {<<"text">>}]
  /\ run = [i \in Runs |-> IdleRun]
  /\ InitLocal

\* a sync from the command: any settings, any file, a space of at most
\* MaxSyncPages pages, a folder path of at most MaxSyncPath segments
InitSync ==
  /\ pages \in UNION {InitRemotes(n) : n \in 0..MaxSyncPages}
  /\ attachments = {}
  /\ doc \in [title : LeafTitles,
              folderPath : SeqsUpTo(FolderNames, MaxSyncPath),
              blocks : SpecBlocks]
  /\ run = [i \in Runs |-> IdleRun]
  /\ settings \in SettingsInputs
  /\ vault \in {FreshFile(c) : c \in FileContents} \cup {NoActiveFile}
  /\ md = IdleTranscoder
  /\ lookup = IdleLookup

\* the placeholder specification: an empty space, an empty folder path
\* and every mix of at most MaxBlocks blocks
InitPh ==
  /\ pages = <<>>
  /\ attachments = {}
  /\ doc \in [title : LeafTitles, folderPath : {<<>>},
              blocks : SeqsUpTo(BlockKinds, MaxBlocks) \ {<<>>}]
  /\ run = [i \in Runs |-> IdleRun]
  /\ InitLocal

\* a document of MaxImages image embeds in a row
InitMany ==
  /\ pages = <<>>
  /\ attachments = {}
  /\ doc \in [title : LeafTitles, folderPath : {<<>>},
              blocks : {[n \in 1..MaxImages |-> "a.png"]}]
  /\ run = [i \in Runs |-> IdleRun]
  /\ InitLocal

(***************************************************************************)
(* Control flow shared by the actions.                                     *)
(***************************************************************************)
Fail(r, kind, title, id) ==
  [r EXCEPT !.pc = "failed", !.err = [kind |-> kind, title |-> title, id |-> id]]

Logged(r, call) == [r EXCEPT !.calls = Append(@, call)]

SearchFailure(out) == IF out = "throw" THEN "transport" ELSE "search"

\* an ensureFolderHierarchy that returns after its first segment
DescendToLeaf(r, id) ==
  [r EXCEPT !.currentParentId = id, !.parentId = id, !.pc = "leafFind",
            !.anyPage = Null]

\* ensureFolderHierarchy: currentParentId := id, then the next segment, or
\* the return into uploadToConfluence's parentId
Descend(r, id) ==
  IF r.idx < Len(doc.folderPath)
  THEN [r EXCEPT !.currentParentId = id, !.idx = @ + 1, !.pc = "folderFind",
                 !.anyPage = Null]
  ELSE [r EXCEPT !.currentParentId = id, !.parentId = id, !.pc = "leafFind",
                 !.anyPage = Null]

NumMermaid == Len(MermaidBlocks(doc.blocks))
NumImages == Len(ImageAttachments(doc.blocks))

\* an uploadToConfluence that makes its final update whatever was extracted
AfterLeafAlwaysFinal(r, page) ==
  IF NumMermaid = 0 /\ NumImages = 0
  THEN [r EXCEPT !.page = page, !.updatedContent = r.confluenceContent,
                 !.pc = "finalUpdate"]
  ELSE Noticed([r EXCEPT !.page = page, !.updatedContent = r.confluenceContent,
                         !.k = 1,
                         !.pc = IF NumMermaid > 0 THEN "mermaidRender" ELSE "imageRead"],
               Notice("progress", "", IF NumMermaid > 0 THEN "mermaid" ELSE "image"))

\* uploadToConfluence after the leaf create/update returned
AfterLeaf(r, page) ==
  IF NumMermaid = 0 /\ NumImages = 0
  THEN [r EXCEPT !.page = page, !.pc = "done", !.returned = page.id]
  ELSE Noticed([r EXCEPT !.page = page, !.updatedContent = r.confluenceContent,
                         !.k = 1,
                         !.pc = IF NumMermaid > 0 THEN "mermaidRender" ELSE "imageRead"],
               Notice("progress", "", IF NumMermaid > 0 THEN "mermaid" ELSE "image"))

\* a mermaid loop after which the image loop is skipped
NextMermaidNoImages(r) ==
  IF r.k < NumMermaid THEN [r EXCEPT !.k = @ + 1, !.pc = "mermaidRender"]
  ELSE [r EXCEPT !.pc = "finalUpdate"]

\* the mermaid loop moves to its next block, then to the image loop
NextMermaid(r) ==
  IF r.k < NumMermaid THEN [r EXCEPT !.k = @ + 1, !.pc = "mermaidRender"]
  ELSE IF NumImages > 0
       THEN Noticed([r EXCEPT !.k = 1, !.pc = "imageRead"], Notice("progress", "", "image"))
  ELSE [r EXCEPT !.pc = "finalUpdate"]

NextImage(r) ==
  IF r.k < NumImages THEN [r EXCEPT !.k = @ + 1, !.pc = "imageRead"]
  ELSE [r EXCEPT !.pc = "finalUpdate"]

SearchResponse(out, title, status) ==
  [outcome |-> out, results |-> IF out = "ok" THEN Search(pages, title, status) ELSE <<>>]

\* uploadToConfluence up to its first await: extraction, conversion,
\* parentId = null, and the notice of the folder structure
Entered(r) ==
  LET e == [r EXCEPT !.confluenceContent = ConvertMarkdownToConfluence(doc.blocks),
                     !.idx = IF Len(doc.folderPath) > 0 THEN 1 ELSE 0,
                     !.pc = IF Len(doc.folderPath) > 0 THEN "folderFind" ELSE "leafFind"]
  IN IF Len(doc.folderPath) > 0 THEN Noticed(e, Notice("progress", "", "folders")) ELSE e

(***************************************************************************)
(* Actions.                                                                *)
(***************************************************************************)
\* uploadToConfluence is called: extraction, conversion, parentId = null.
\* Run 2 is called once run 1 has returned.
Start(i) ==
  /\ run[i].pc = "idle"
  /\ IF i = 1 THEN TRUE ELSE run[i - 1].pc = "done"
  /\ run' = [run EXCEPT ![i] = Entered(@)]
  /\ UNCHANGED <<pages, attachments, doc, settings, vault, md, lookup>>

\* ensureFolderHierarchy: findExistingPage(folderName, currentParentId)
FolderFind(i) ==
  /\ run[i].pc = "folderFind"
  /\ \E out \in LookupOutcomes :
       LET r == run[i]
           name == doc.folderPath[r.idx]
           res == FindExistingPage(SearchResponse(out, name, "current"), r.currentParentId)
           l == Logged(r, Call("findExistingPage", "folder", name,
                               LookupReq(r.currentParentId), out = "ok", 0))
       IN run' = [run EXCEPT ![i] =
            IF res.fatal THEN Fail(l, SearchFailure(out), name, NoPage)
            ELSE IF res.page # Null THEN Descend(l, res.page.id)
            ELSE [l EXCEPT !.pc = "folderFindAny"]]
  /\ UNCHANGED <<pages, attachments, doc, settings, vault, md, lookup>>

\* ensureFolderHierarchy: findExistingPage(folderName, null)
FolderFindAny(i) ==
  /\ run[i].pc = "folderFindAny"
  /\ \E out \in LookupOutcomes :
       LET r == run[i]
           name == doc.folderPath[r.idx]
           res == FindExistingPage(SearchResponse(out, name, "current"), NoPage)
           l == Logged(r, Call("findExistingPage", "folder", name,
                               LookupReq(NoPage), out = "ok", 0))
       IN run' = [run EXCEPT ![i] =
            IF res.fatal THEN Fail(l, SearchFailure(out), name, NoPage)
            ELSE IF res.page # Null
                 THEN Noticed([l EXCEPT !.anyPage = res.page, !.pc = "folderMove"],
                              Notice("progress", name, "move"))
            ELSE [l EXCEPT !.pc = "folderFindArchived"]]
  /\ UNCHANGED <<pages, attachments, doc, settings, vault, md, lookup>>

\* ensureFolderHierarchy: updatePage(anyPage.id, .., currentParentId)
FolderMove(i) ==
  /\ run[i].pc = "folderMove"
  /\ \E out \in WriteOutcomes :
       LET r == run[i]
           name == doc.folderPath[r.idx]
           req == UpdatePage(r.anyPage.id, name, FolderBody, r.anyPage.version,
                             r.currentParentId)
           ok == out = "ok" /\ RemoteAccepts(pages, req)
           l == Logged(r, Call("updatePage", "folder", name, req, ok,
                               pages[req.id].version))
       IN /\ pages' = IF ok THEN RemoteUpdate(pages, req) ELSE pages
          /\ run' = [run EXCEPT ![i] =
               IF ok THEN Descend(l, req.id) ELSE Fail(l, "update", name, req.id)]
  /\ UNCHANGED <<attachments, doc, settings, vault, md, lookup>>

\* ensureFolderHierarchy: findArchivedPage(folderName), and the throw of
\* the archived-title error
FolderFindArchived(i) ==
  /\ run[i].pc = "folderFindArchived"
  /\ \E out \in LookupOutcomes :
       LET r == run[i]
           name == doc.folderPath[r.idx]
           res == FindArchivedPage(SearchResponse(out, name, "archived"))
           l == Logged(r, Call("findArchivedPage", "folder", name,
                               LookupReq(NoPage), out = "ok", 0))
       IN run' = [run EXCEPT ![i] =
            IF res.fatal THEN Fail(l, "transport", name, NoPage)
            ELSE IF res.page # Null
                 THEN Fail(Noticed(l, Notice("error", name, "createPage")),
                           "archived", name, res.page.id)
            ELSE [l EXCEPT !.pc = "folderCreate"]]
  /\ UNCHANGED <<pages, attachments, doc, settings, vault, md, lookup>>

\* ensureFolderHierarchy: createPage(folderName, .., currentParentId)
FolderCreate(i) ==
  /\ run[i].pc = "folderCreate"
  /\ \E out \in WriteOutcomes :
       LET r == run[i]
           name == doc.folderPath[r.idx]
           req == CreatePage(name, FolderBody, r.currentParentId)
           ok == out = "ok"
           newId == Len(pages) + 1
           l == Logged(r, Call("createPage", "folder", name,
                               CreateReq(req, IF ok THEN newId ELSE NoPage), ok, 0))
       IN /\ pages' = IF ok THEN RemoteCreate(pages, req) ELSE pages
          /\ run' = [run EXCEPT ![i] =
               IF ok THEN Descend(l, newId) ELSE Fail(l, "create", name, NoPage)]
  /\ UNCHANGED <<attachments, doc, settings, vault, md, lookup>>

\* uploadToConfluence: findExistingPage(title, parentId)
LeafFind(i) ==
  /\ run[i].pc = "leafFind"
  /\ \E out \in LookupOutcomes :
       LET r == run[i]
           res == FindExistingPage(SearchResponse(out, doc.title, "current"), r.parentId)
           l == Logged(r, Call("findExistingPage", "leaf", doc.title,
                               LookupReq(r.parentId), out = "ok", 0))
       IN run' = [run EXCEPT ![i] =
            IF res.fatal THEN Fail(l, SearchFailure(out), doc.title, NoPage)
            ELSE [l EXCEPT !.existingPage = res.page,
                           !.pc = IF res.page # Null THEN "leafUpdate" ELSE "leafCreate"]]
  /\ UNCHANGED <<pages, attachments, doc, settings, vault, md, lookup>>

\* uploadToConfluence: updatePage(existingPage.id, .., existingPage.version.number, parentId)
LeafUpdate(i) ==
  /\ run[i].pc = "leafUpdate"
  /\ \E out \in WriteOutcomes :
       LET r == run[i]
           req == UpdatePage(r.existingPage.id, doc.title, r.confluenceContent,
                             r.existingPage.version, r.parentId)
           ok == out = "ok" /\ RemoteAccepts(pages, req)
           l == Logged(r, Call("updatePage", "leaf", doc.title, req, ok,
                               pages[req.id].version))
       IN /\ pages' = IF ok THEN RemoteUpdate(pages, req) ELSE pages
          /\ run' = [run EXCEPT ![i] =
               IF ok THEN AfterLeaf(l, AsResponse(pages', req.id))
               ELSE Fail(l, "update", doc.title, req.id)]
  /\ UNCHANGED <<attachments, doc, settings, vault, md, lookup>>

\* uploadToConfluence: createPage(title, confluenceContent, parentId)
LeafCreate(i) ==
  /\ run[i].pc = "leafCreate"
  /\ \E out \in WriteOutcomes :
       LET r == run[i]
           req == CreatePage(doc.title, r.confluenceContent, r.parentId)
           ok == out = "ok"
           newId == Len(pages) + 1
           l == Logged(r, Call("createPage", "leaf", doc.title,
                               CreateReq(req, IF ok THEN newId ELSE NoPage), ok, 0))
       IN /\ pages' = IF ok THEN RemoteCreate(pages, req) ELSE pages
          /\ run' = [run EXCEPT ![i] =
               IF ok THEN AfterLeaf(l, AsResponse(pages', newId))
               ELSE Fail(l, "create", doc.title, NoPage)]
  /\ UNCHANGED <<attachments, doc, settings, vault, md, lookup>>

\* mermaid loop: convertMermaidToSvg(block.code); a failure is caught and
\* the loop goes on
MermaidRender(i) ==
  /\ run[i].pc = "mermaidRender"
  /\ \E out \in WriteOutcomes :
       LET r == run[i]
           block == MermaidBlocks(doc.blocks)[r.k]
           l == Logged(r, Call("convertMermaidToSvg", "placeholder", doc.title,
                               AttachReq(NoPage, block.filename), out = "ok", 0))
       IN run' = [run EXCEPT ![i] =
            IF out = "ok" THEN [l EXCEPT !.pc = "mermaidUpload"]
            ELSE NextMermaid(Noticed(l, Notice("warning", "", "mermaid")))]
  /\ UNCHANGED <<pages, attachments, doc, settings, vault, md, lookup>>

\* mermaid loop: uploadAttachment(page.id, block.filename, ..), then the
\* replacement of the placeholder in updatedContent
MermaidUpload(i) ==
  /\ run[i].pc = "mermaidUpload"
  /\ \E out \in WriteOutcomes :
       LET r == run[i]
           block == MermaidBlocks(doc.blocks)[r.k]
           ok == out = "ok"
           l == Logged(r, Call("uploadAttachment", "placeholder", doc.title,
                               AttachReq(r.page.id, block.filename), ok, 0))
       IN /\ attachments' = IF ok THEN attachments \cup {<<r.page.id, block.filename>>}
                            ELSE attachments
          /\ run' = [run EXCEPT ![i] =
               IF ok
               THEN NextMermaid([l EXCEPT !.updatedContent =
                      ReplacePlaceholder(@, <<"!">> \o block.filename,
                                         AttachmentMacro(block.filename))])
               ELSE NextMermaid(Noticed(l, Notice("warning", "", "mermaid")))]
  /\ UNCHANGED <<pages, doc, settings, vault, md, lookup>>

\* image loop: readImageAttachment(attachment.filename)
ImageRead(i) ==
  /\ run[i].pc = "imageRead"
  /\ \E out \in WriteOutcomes :
       LET r == run[i]
           attachment == ImageAttachments(doc.blocks)[r.k]
           l == Logged(r, Call("readImageAttachment", "placeholder", doc.title,
                               AttachReq(NoPage, attachment.filename), out = "ok", 0))
       IN run' = [run EXCEPT ![i] =
            IF out = "ok" THEN [l EXCEPT !.pc = "imageUpload"]
            ELSE NextImage(Noticed(l, Notice("warning", attachment.filename, "image")))]
  /\ UNCHANGED <<pages, attachments, doc, settings, vault, md, lookup>>

\* image loop: uploadBinaryAttachment(page.id, attachment.filename, ..),
\* then the replacement of the placeholder in updatedContent
ImageUpload(i) ==
  /\ run[i].pc = "imageUpload"
  /\ \E out \in WriteOutcomes :
       LET r == run[i]
           attachment == ImageAttachments(doc.blocks)[r.k]
           ok == out = "ok"
           l == Logged(r, Call("uploadBinaryAttachment", "placeholder", doc.title,
                               AttachReq(r.page.id, attachment.filename), ok, 0))
       IN /\ attachments' = IF ok THEN attachments \cup {<<r.page.id, attachment.filename>>}
                            ELSE attachments
          /\ run' = [run EXCEPT ![i] =
               IF ok
               THEN NextImage([l EXCEPT !.updatedContent =
                      ReplacePlaceholder(@, attachment.placeholder,
                                         AttachmentMacro(attachment.filename))])
               ELSE NextImage(Noticed(l, Notice("warning", attachment.filename, "image")))]
  /\ UNCHANGED <<pages, doc, settings, vault, md, lookup>>

\* uploadToConfluence: updatePage(page.id, title, updatedContent,
\* page.version.number, parentId), then return page
FinalUpdate(i) ==
  /\ run[i].pc = "finalUpdate"
  /\ \E out \in WriteOutcomes :
       LET r == run[i]
           req == UpdatePage(r.page.id, doc.title, r.updatedContent, r.page.version,
                             r.parentId)
           ok == out = "ok" /\ RemoteAccepts(pages, req)
           l == Logged(r, Call("updatePage", "final", doc.title, req, ok,
                               pages[req.id].version))
       IN /\ pages' = IF ok THEN RemoteUpdate(pages, req) ELSE pages
          /\ run' = [run EXCEPT ![i] =
               IF ok THEN [l EXCEPT !.pc = "done", !.returned = r.page.id]
               ELSE Fail(l, "update", doc.title, req.id)]
  /\ UNCHANGED <<attachments, doc, settings, vault, md, lookup>>

\* the steps of run i
Run(i) ==
  \/ Start(i)
  \/ FolderFind(i)
  \/ FolderFindAny(i)
  \/ FolderMove(i)
  \/ FolderFindArchived(i)
  \/ FolderCreate(i)
  \/ LeafFind(i)
  \/ LeafUpdate(i)
  \/ LeafCreate(i)
  \/ MermaidRender(i)
  \/ MermaidUpload(i)
  \/ ImageRead(i)
  \/ ImageUpload(i)
  \/ FinalUpdate(i)

\* one run against any initial space
Next == Run(1)

Spec == Init /\ [][Next]_vars

\* one run on a Document with folders and with placeholders of both
\* kinds
InitOrder ==
  /\ pages \in UNION {InitRemotes(n) : n \in 0..MaxOrderPages}
  /\ attachments = {}
  /\ doc \in [title : LeafTitles,
              folderPath : SeqsUpTo(FolderNames, MaxOrderPath),
              blocks : SeqsUpTo({"mermaid"} \cup ImageFiles, MaxOrderBlocks) \ {<<>>}]
  /\ run = [i \in Runs |-> IdleRun]
  /\ InitLocal

SpecOrder == InitOrder /\ [][Next]_vars

\* two runs in succession on the unchanged Document, no other writer
NextTwice == \E i \in Runs : Run(i)

SpecTwice == InitTwice /\ [][NextTwice]_vars

\* one run on an empty space with an empty folder path: the leaf is
\* created and the placeholders are processed
NextPh ==
  \/ Start(1)
  \/ LeafFind(1)
  \/ LeafCreate(1)
  \/ MermaidRender(1)
  \/ MermaidUpload(1)
  \/ ImageRead(1)
  \/ ImageUpload(1)
  \/ FinalUpdate(1)

SpecPh == InitPh /\ [][NextPh]_vars

\* one run on an empty space, the document holding image embeds only
NextMany ==
  \/ Start(1)
  \/ LeafFind(1)
  \/ LeafCreate(1)
  \/ ImageRead(1)
  \/ ImageUpload(1)
  \/ FinalUpdate(1)

SpecMany == InitMany /\ [][NextMany]_vars

\* syncCurrentFile up to vault.read: the active file, the settings, the
\* first notice
SyncCurrentFile(i) ==
  /\ run[i].sync = "none"
  /\ run[i].pc = "idle"
  /\ run' = [run EXCEPT ![i] =
       IF ~vault.active
       THEN Noticed([@ EXCEPT !.sync = "rejected"], Notice("nofile", "", ""))
       ELSE IF ~ValidateSettings(settings)
       THEN Noticed([@ EXCEPT !.sync = "rejected"], Notice("config", "", ""))
       ELSE Noticed([@ EXCEPT !.sync = "reading"], Notice("progress", "", "sync"))]
  /\ UNCHANGED <<pages, attachments, doc, settings, vault, md, lookup>>

\* syncCurrentFile: vault.read returns and uploadToConfluence is entered,
\* or it throws into the catch
VaultRead(i) ==
  /\ run[i].sync = "reading"
  /\ \E out \in WriteOutcomes :
       run' = [run EXCEPT ![i] =
         IF out = "ok"
         THEN Entered([@ EXCEPT !.sync = "uploading", !.content = vault.content])
         ELSE Noticed([@ EXCEPT !.sync = "caught"], Notice("error", "", "vault.read"))]
  /\ UNCHANGED <<pages, attachments, doc, settings, vault, md, lookup>>

\* syncCurrentFile after uploadToConfluence returned: the frontmatter is
\* written when the setting asks for it, then the notice of success; a
\* vault.modify that throws ends in the catch
SyncReturned(i) ==
  /\ run[i].sync = "uploading"
  /\ run[i].pc = "done"
  /\ IF ShouldRecordUrl(settings)
     THEN \E out \in WriteOutcomes :
            IF out = "ok"
            THEN /\ vault' = [vault EXCEPT
                       !.content = UpdateFrontmatter(run[i].content,
                                     ConfluenceUrl(settings, run[i].returned)),
                       !.modified = @ + 1]
                 /\ run' = [run EXCEPT ![i] =
                       Noticed([@ EXCEPT !.sync = "finished"], Notice("success", "", "sync"))]
            ELSE /\ vault' = vault
                 /\ run' = [run EXCEPT ![i] =
                       Noticed([@ EXCEPT !.sync = "caught"],
                               Notice("error", "", "vault.modify"))]
     ELSE /\ vault' = vault
          /\ run' = [run EXCEPT ![i] =
                Noticed([@ EXCEPT !.sync = "finished"], Notice("success", "", "sync"))]
  /\ UNCHANGED <<pages, attachments, doc, settings, md, lookup>>

\* syncCurrentFile: the catch of an error thrown by uploadToConfluence
SyncCaught(i) ==
  /\ run[i].sync = "uploading"
  /\ run[i].pc = "failed"
  /\ run' = [run EXCEPT ![i] =
       Noticed([@ EXCEPT !.sync = "caught"], ThrownMessage(@.err))]
  /\ UNCHANGED <<pages, attachments, doc, settings, vault, md, lookup>>

\* one sync from the command to its last notice
NextSync ==
  \/ SyncCurrentFile(1)
  \/ VaultRead(1)
  \/ FolderFind(1)
  \/ FolderFindAny(1)
  \/ FolderMove(1)
  \/ FolderFindArchived(1)
  \/ FolderCreate(1)
  \/ LeafFind(1)
  \/ LeafUpdate(1)
  \/ LeafCreate(1)
  \/ MermaidRender(1)
  \/ MermaidUpload(1)
  \/ ImageRead(1)
  \/ ImageUpload(1)
  \/ FinalUpdate(1)
  \/ SyncReturned(1)
  \/ SyncCaught(1)

SpecSync == InitSync /\ [][NextSync]_vars

(***************************************************************************)
(* The transcoder alone: uploadToConfluence's two extractions and the      *)
(* stages of convertMarkdownToConfluence, one stage a step, on markdown    *)
(* texts of at most MaxLines blocks.                                       *)
(***************************************************************************)
\* the stages with the code blocks converted before the extractions
StagesCodeFirst ==
  <<"convertCodeBlocks", "extractMermaid", "extractImages",
    "convertDataviewJsTags", "convertWikiLinks", "removeInlineIcons",
    "convertHeadings", "convertImages", "convertTables",
    "convertTaskLists", "convertTextFormatting", "convertStrikethrough",
    "convertLinks", "convertInlineCode", "convertHorizontalRules",
    "convertBlockquotes", "convertLists", "convertParagraphs">>

\* the stages in the order of the calls
Stages ==
  <<"extractMermaid", "extractImages",
    "convertDataviewJsTags", "convertWikiLinks", "removeInlineIcons",
    "convertHeadings", "convertCodeBlocks", "convertImages", "convertTables",
    "convertTaskLists", "convertTextFormatting", "convertStrikethrough",
    "convertLinks", "convertInlineCode", "convertHorizontalRules",
    "convertBlockquotes", "convertLists", "convertParagraphs">>

ApplyStage(name, t) ==
  CASE name = "extractMermaid" -> ExtractMermaid(t, 1, 0)
    [] name = "extractImages" -> ExtractImages(t, 1, 0)
    [] name = "convertDataviewJsTags" -> ConvertDataviewJsTags(t)
    [] name = "convertWikiLinks" -> ConvertWikiLinks(t)
    [] name = "removeInlineIcons" -> RemoveInlineIcons(t)
    [] name = "convertHeadings" -> ConvertHeadings(t)
    [] name = "convertCodeBlocks" -> ConvertCodeBlocks(t)
    [] name = "convertImages" -> ConvertImages(t)
    [] name = "convertTables" -> ConvertTables(t)
    [] name = "convertTaskLists" -> ConvertTaskLists(t)
    [] name = "convertTextFormatting" -> ConvertTextFormatting(t)
    [] name = "convertStrikethrough" -> ConvertStrikethrough(t)
    [] name = "convertLinks" -> ConvertLinks(t)
    [] name = "convertInlineCode" -> ConvertInlineCode(t)
    [] name = "convertHorizontalRules" -> ConvertHorizontalRules(t)
    [] name = "convertBlockquotes" -> ConvertBlockquotes(t)
    [] name = "convertLists" -> ConvertLists(t)
    [] OTHER -> ConvertParagraphs(t)

\* the blocks a markdown text is made of
MermaidFence == <<"'''", "mermaid", "\n", "graph", "\n", "'''">>
PythonFence == <<"'''", "python", "\n", "print(1)", "\n", "'''">>
ImageEmbed == <<"!", "[[", "a.png", "]]">>
MdBlocks ==
  {<<"hello">>, <<"# ", "Title">>, MermaidFence, PythonFence, ImageEmbed,
   <<"[[", "Note", "]]">>, <<DataviewBlock>>, <<"see", IconImage>>, <<UrlImage>>,
   <<"|h|", "\n", "|-|", "\n", "|c|">>,
   <<"- ", "[x] ", "T">>, <<"- ", "[X] ", "T">>, <<"- ", "[ ] ", "T">>,
   <<"**", "b", "**">>, <<"~~", "s", "~~">>, <<UrlLink>>, <<"'", "c", "'">>,
   <<"---">>, <<"> ", "q">>, <<"- ", "item">>, <<"1. ", "one">>,
   <<"  ", "- ", "sub">>}

\* the separators between two blocks: a line break, an empty line
MdSeparators == {<<"\n">>, <<"\n", "\n">>}

RECURSIVE MdJoin(_, _)
MdJoin(blocks, sep) ==
  IF Len(blocks) = 1 THEN blocks[1]
  ELSE blocks[1] \o sep \o MdJoin(Tail(blocks), sep)

MdDocuments ==
  UNION {{MdJoin(bs, sep) : bs \in [1..n -> MdBlocks], sep \in MdSeparators}
           : n \in 1..MaxLines}

InitMd ==
  /\ pages = <<>>
  /\ attachments = {}
  /\ doc = [title |-> "Note", folderPath |-> <<>>, blocks |-> <<>>]
  /\ run = [i \in Runs |-> IdleRun]
  /\ settings = ConfiguredSettings
  /\ vault = FreshFile([has |-> FALSE, fm |-> <<>>])
  /\ \E d \in MdDocuments :
       md = [input |-> d, text |-> d, stage |-> 0, applied |-> <<>>]
  /\ lookup = IdleLookup

\* the next call of the pipeline
TranscodeStage ==
  /\ md.stage < Len(Stages)
  /\ md' = [md EXCEPT !.text = ApplyStage(Stages[md.stage + 1], md.text),
                      !.stage = md.stage + 1,
                      !.applied = Append(md.applied, Stages[md.stage + 1])]
  /\ UNCHANGED <<pages, attachments, doc, run, settings, vault, lookup>>

NextMd == TranscodeStage

SpecMd == InitMd /\ [][NextMd]_vars

(***************************************************************************)
(* The transcoder on texts that are one fenced code block of at most       *)
(* MaxCodeLines lines of code.                                             *)
(***************************************************************************)
\* lines of code: plain, with asterisks, with underscores, with tildes,
\* list-like, quote-like, rule-like, empty
CodeLines ==
  {<<"a">>, <<"**", "b", "**">>, <<"a", "_", "b", "_", "c">>, <<"~~", "s", "~~">>,
   <<"- ", "item">>, <<"1. ", "one">>, <<"> ", "q">>, <<"---">>, <<>>}

\* the fenced block of the lines of code ls
CodeFence(ls) ==
  <<"'''", "python", "\n">> \o Concat([j \in 1..Len(ls) |-> ls[j] \o <<"\n">>])
  \o <<"'''">>

CodeDocuments ==
  UNION {{CodeFence(ls) : ls \in [1..n -> CodeLines]} : n \in 1..MaxCodeLines}

InitCode ==
  /\ pages = <<>>
  /\ attachments = {}
  /\ doc = [title |-> "Note", folderPath |-> <<>>, blocks |-> <<>>]
  /\ run = [i \in Runs |-> IdleRun]
  /\ settings = ConfiguredSettings
  /\ vault = FreshFile([has |-> FALSE, fm |-> <<>>])
  /\ \E d \in CodeDocuments :
       md = [input |-> d, text |-> d, stage |-> 0, applied |-> <<>>]
  /\ lookup = IdleLookup

SpecCode == InitCode /\ [][NextMd]_vars

(***************************************************************************)
(* findExistingPage alone, on a response of at most MaxResults results of  *)
(* any status and any ancestors.                                           *)
(***************************************************************************)
ResultPages ==
  [id : {3, 4}, title : LeafTitles, status : {"current", "archived"},
   version : {1}, ancestors : {<<>>, <<1>>, <<2>>, <<1, 2>>, <<2, 1>>}]

InitFind ==
  /\ pages = <<>>
  /\ attachments = {}
  /\ doc = [title |-> "Note", folderPath |-> <<>>, blocks |-> <<>>]
  /\ run = [i \in Runs |-> IdleRun]
  /\ settings = ConfiguredSettings
  /\ vault = FreshFile([has |-> FALSE, fm |-> <<>>])
  /\ md = IdleTranscoder
  /\ lookup \in [pc : {"called"}, outcome : LookupOutcomes,
                  results : SeqsUpTo(ResultPages, MaxResults),
                  parentId : {NoPage, 1, 2},
                  returned : {[fatal |-> FALSE, page |-> Null]}]

\* the response arrives and findExistingPage returns or throws
FindReturns ==
  /\ lookup.pc = "called"
  /\ lookup' = [lookup EXCEPT
       !.pc = "returned",
       !.returned = FindExistingPage(
                      [outcome |-> lookup.outcome,
                       results |-> IF lookup.outcome = "ok" THEN lookup.results ELSE <<>>],
                      lookup.parentId)]
  /\ UNCHANGED <<pages, attachments, doc, run, settings, vault, md>>

NextFind == FindReturns

SpecFind == InitFind /\ [][NextFind]_vars

(***************************************************************************)
(* convertLists alone, on texts of at most MaxListLines lines.             *)
(***************************************************************************)
\* root items of both kinds, an indented bullet, an indented line of text,
\* an empty line, a line of text
ListLines ==
  {<<"- ", "item">>, <<"1. ", "one">>, <<"  ", "- ", "sub">>, <<"  ", "cont">>,
   <<>>, <<"hello">>}

ListDocuments ==
  UNION {{JoinLines(ls) : ls \in [1..n -> ListLines]} : n \in 1..MaxListLines}

InitLists ==
  /\ pages = <<>>
  /\ attachments = {}
  /\ doc = [title |-> "Note", folderPath |-> <<>>, blocks |-> <<>>]
  /\ run = [i \in Runs |-> IdleRun]
  /\ settings = ConfiguredSettings
  /\ vault = FreshFile([has |-> FALSE, fm |-> <<>>])
  /\ \E d \in ListDocuments :
       md = [input |-> d, text |-> d, stage |-> 0, applied |-> <<>>]
  /\ lookup = IdleLookup

\* the call of convertLists
ConvertListsCall ==
  /\ md.applied = <<>>
  /\ md' = [md EXCEPT !.text = ConvertLists(md.text),
                      !.stage = md.stage + 1,
                      !.applied = <<"convertLists">>]
  /\ UNCHANGED <<pages, attachments, doc, run, settings, vault, lookup>>

NextLists == ConvertListsCall

SpecLists == InitLists /\ [][NextLists]_vars

\* the command callback called while another run may be under way:
\* nothing serializes the calls of syncCurrentFile
Trigger(i) ==
  /\ run[i].pc = "idle"
  /\ run' = [run EXCEPT ![i] = Entered(@)]
  /\ UNCHANGED <<pages, attachments, doc, settings, vault, md, lookup>>

\* two runs for the same Document, interleaved at their awaits
NextInter ==
  \E i \in Runs :
    \/ Trigger(i)
    \/ FolderFind(i)
    \/ FolderFindAny(i)
    \/ FolderMove(i)
    \/ FolderFindArchived(i)
    \/ FolderCreate(i)
    \/ LeafFind(i)
    \/ LeafUpdate(i)
    \/ LeafCreate(i)

SpecInter == InitInter /\ [][NextInter]_vars

(***************************************************************************)
(* Properties.  What a run did is read off run[i].calls.                   *)
(***************************************************************************)
Last(q) == q[Len(q)]

Range(q) == {q[j] : j \in 1..Len(q)}

IsWrite(c) == c.op \in {"createPage", "updatePage"}

\* ids of pages created by a run; every other page was in the initial space
CreatedIds ==
  {c.id : c \in {d \in UNION {Range(run[i].calls) : i \in Runs} :
                   d.op = "createPage" /\ d.ok}}

InitialIds == (1..Len(pages)) \ CreatedIds

PathDistinct ==
  \A a, b \in 1..Len(doc.folderPath) :
    a # b => doc.folderPath[a] # doc.folderPath[b]

NoInitialFolderTitle ==
  \A id \in InitialIds : pages[id].title \notin Range(doc.folderPath)

FolderCreates(i) ==
  SelectSeq(run[i].calls, LAMBDA c : c.op = "createPage" /\ c.stage = "folder")

LeafWrites(i) ==
  SelectSeq(run[i].calls, LAMBDA c : IsWrite(c) /\ c.stage = "leaf")

RECURSIVE MirrorsFrom(_, _)
\* page id is active and the k folder segments above it are in place
MirrorsFrom(id, k) ==
  /\ pages[id].status = "current"
  /\ IF k = 0 THEN pages[id].parent = NoPage
     ELSE /\ pages[id].parent # NoPage
          /\ pages[pages[id].parent].title = doc.folderPath[k]
          /\ MirrorsFrom(pages[id].parent, k - 1)

\* C1 (as claimed): after a successful run there is an active page titled
\* title under a page titled sn, under s(n-1), .., with s1 at the space
\* root; with an empty path the leaf has no parent.
C1_TreeMirrorsPath ==
  run[1].pc = "done" =>
    \E id \in 1..Len(pages) :
      pages[id].title = doc.title /\ MirrorsFrom(id, Len(doc.folderPath))

\* C2: with pairwise-distinct segments none of which titles a page of the
\* initial space, the folder createPage calls are issued in path order,
\* the first without a parent and each next one under the id returned for
\* the one before, and all n of them have completed before the leaf
\* create/update is issued under the last folder's id.
C2_FolderCreation ==
  LET path == doc.folderPath
      n == Len(path)
      calls == run[1].calls
      fc == FolderCreates(1)
      lw == LeafWrites(1)
  IN (PathDistinct /\ NoInitialFolderTitle) =>
       /\ Len(fc) <= n
       /\ \A j \in 1..Len(fc) :
            /\ fc[j].title = path[j]
            /\ IF j = 1 THEN ~fc[j].hasAncestors /\ fc[j].parent = NoPage
               ELSE fc[j].hasAncestors /\ fc[j].parent = fc[j - 1].id
            /\ j < Len(fc) => fc[j].ok
       /\ Len(lw) > 0 =>
            /\ Len(fc) = n
            /\ \A j \in 1..n : fc[j].ok
            /\ IF n = 0 THEN ~lw[1].hasAncestors
               ELSE lw[1].hasAncestors /\ lw[1].parent = fc[n].id
            /\ \A a, b \in 1..Len(calls) :
                 (calls[a].stage = "folder" /\ calls[b].stage = "leaf") => a < b
       /\ run[1].pc = "done" => Len(fc) = n

C2_Witness ==
  /\ run[1].pc = "done"
  /\ PathDistinct /\ NoInitialFolderTitle
  /\ Len(doc.folderPath) >= 2
  /\ Len(FolderCreates(1)) = Len(doc.folderPath)

\* the pages titled name, when the title is on one active page only and
\* that page's parent is not the required parent
MisplacedOnly(name, required) ==
  LET holders == {id \in 1..Len(pages) : pages[id].title = name}
  IN {p \in holders : /\ holders = {p}
                      /\ pages[p].status = "current"
                      /\ pages[p].parent # required}

C3_Step ==
  LET r == run[1]
      name == doc.folderPath[r.idx]
      misplaced == MisplacedOnly(name, r.currentParentId)
  IN /\ (r.pc = "folderFind" /\ misplaced # {} /\ run'[1].pc # "failed")
          => run'[1].pc = "folderFindAny"
     /\ (r.pc = "folderFindAny" /\ misplaced # {} /\ run'[1].pc # "failed")
          => run'[1].pc = "folderMove" /\ run'[1].anyPage.id \in misplaced
     /\ (r.pc = "folderMove" /\ run'[1].pc # "failed")
          => LET c == Last(run'[1].calls)
             IN /\ c.op = "updatePage" /\ c.id = r.anyPage.id
                /\ c.hasAncestors /\ c.parent = r.currentParentId
                /\ pages'[c.id].parent = r.currentParentId
                /\ run'[1].currentParentId = c.id

\* C3 (as claimed): whenever a segment's title is only on one active page
\* whose parent is not the parent the chain requires (the space root for
\* the first segment), the run updates that page to the required parent,
\* descends into it and creates no page of that title.
C3_ReparentRepair == [][C3_Step]_vars

\* C4: a folder createPage is never reached after an answered archived
\* search while an archived page of that title exists; the archived-title
\* error carries the id of an archived page of that title, is the end of
\* the run, follows the archived search directly, and no page of that
\* title and no leaf page was created or updated.
C4_ArchivedConflict ==
  LET r == run[1]
  IN /\ (r.pc = "folderCreate" /\ Last(r.calls).ok) =>
          ~\E id \in 1..Len(pages) :
             pages[id].status = "archived" /\ pages[id].title = doc.folderPath[r.idx]
     /\ r.err.kind = "archived" =>
          /\ r.pc = "failed"
          /\ r.err.id \in 1..Len(pages)
          /\ pages[r.err.id].status = "archived"
          /\ pages[r.err.id].title = r.err.title
          /\ r.err.title = doc.folderPath[r.idx]
          /\ Last(r.calls).op = "findArchivedPage"
          /\ \A c \in Range(r.calls) :
               IsWrite(c) => c.title # r.err.title /\ c.stage # "leaf"

C4_Witness ==
  /\ run[1].err.kind = "archived"
  /\ \E c \in Range(run[1].calls) : c.op = "createPage" /\ c.ok

UpdateCalls(i) == SelectSeq(run[i].calls, LAMBDA c : c.op = "updatePage")

\* the version a write call leaves on its page
WrittenVersion(c) == IF c.op = "createPage" THEN 1 ELSE c.version

\* the version of the returned page when run i ended
LeafVersionAfter(i) ==
  LET w == SelectSeq(run[i].calls,
                     LAMBDA c : IsWrite(c) /\ c.ok /\ c.id = run[i].returned)
  IN WrittenVersion(Last(w))

\* C5 (as claimed): the second of two runs in succession returns the same
\* page id, issues no createPage and exactly one updatePage, which submits
\* the leaf's version at the end of the first run plus one.
C5_Idempotence ==
  run[2].pc = "done" =>
    /\ run[2].returned = run[1].returned
    /\ \A c \in Range(run[2].calls) : c.op # "createPage"
    /\ Len(UpdateCalls(2)) = 1
    /\ UpdateCalls(2)[1].version = LeafVersionAfter(1) + 1

\* C5 (amended): the second run returns the same page id and issues no
\* createPage; its updatePage calls are the leaf update, submitting the
\* leaf's version at the end of the first run plus one, and, exactly when
\* the document holds a placeholder, the final update after it, submitting
\* one more; both are on the returned page.
C5_IdempotenceAmended ==
  LET u == UpdateCalls(2)
  IN run[2].pc = "done" =>
       /\ run[2].returned = run[1].returned
       /\ \A c \in Range(run[2].calls) : c.op # "createPage"
       /\ Len(u) = IF NumMermaid + NumImages > 0 THEN 2 ELSE 1
       /\ u[1].stage = "leaf" /\ u[1].id = run[1].returned
       /\ u[1].version = LeafVersionAfter(1) + 1
       /\ Len(u) = 2 =>
            /\ u[2].stage = "final" /\ u[2].id = run[1].returned
            /\ u[2].version = LeafVersionAfter(1) + 2

C5_Witness ==
  /\ run[2].pc = "done"
  /\ NumMermaid + NumImages > 0
  /\ Len(doc.folderPath) >= 2
  /\ Len(UpdateCalls(2)) = 2

\* C6 (as claimed): the page the run is about to update as the leaf is
\* active, titled Document.title, and its immediate parent is the final
\* parentId (none when the folder path is empty).
C6_LeafScopedToParent ==
  LET r == run[1]
  IN r.pc = "leafUpdate" =>
       /\ pages[r.existingPage.id].status = "current"
       /\ pages[r.existingPage.id].title = doc.title
       /\ pages[r.existingPage.id].parent = r.parentId

\* C7: every updatePage call of a run (folder re-parent, leaf update,
\* final update) submits the remote page's version at the moment of the
\* call plus one.
C7_VersionDiscipline ==
  \A c \in Range(run[1].calls) :
    c.op = "updatePage" => c.version = c.cur + 1

C7_Witness ==
  /\ run[1].pc = "done"
  /\ \E c \in Range(run[1].calls) : c.op = "updatePage" /\ c.stage = "folder" /\ c.ok
  /\ \E c \in Range(run[1].calls) : c.op = "updatePage" /\ c.stage = "leaf" /\ c.ok
  /\ \E c \in Range(run[1].calls) : c.op = "updatePage" /\ c.stage = "final" /\ c.ok

\* positions of the calls of one operation, in the order issued
Indices(q, op) ==
  SelectSeq([j \in 1..Len(q) |-> j], LAMBDA j : q[j].op = op)

\* placeholder k of a kind was attempted: its render/read was issued
Attempted(i, first, k) == k <= Len(Indices(run[i].calls, first))

\* placeholder k of a kind was resolved: its render/read succeeded and the
\* upload issued right after it succeeded
Resolved(i, first, second, k) ==
  LET calls == run[i].calls
      at == Indices(calls, first)
  IN /\ k <= Len(at)
     /\ calls[at[k]].ok
     /\ at[k] < Len(calls)
     /\ calls[at[k] + 1].op = second
     /\ calls[at[k] + 1].ok

MermaidResolved(i, k) == Resolved(i, "convertMermaidToSvg", "uploadAttachment", k)
ImageResolved(i, k) == Resolved(i, "readImageAttachment", "uploadBinaryAttachment", k)

Contains(body, pat) == \E j \in 1..Len(body) : MatchAt(body, j, pat)

FinalCalls(i) == SelectSeq(run[i].calls, LAMBDA c : c.stage = "final")

\* C8 (as claimed): whichever placeholders fail, the failure is not fatal,
\* every placeholder is attempted before the final update, and the body of
\* the final update holds the embed macro of every placeholder that
\* succeeded and the original token of every placeholder that failed.
C8_PlaceholderIndependence ==
  LET r == run[1]
  IN /\ r.pc = "failed" => Last(r.calls).stage # "placeholder"
     /\ \A c \in Range(FinalCalls(1)) :
          /\ \A k \in 1..NumMermaid :
               /\ Attempted(1, "convertMermaidToSvg", k)
               /\ IF MermaidResolved(1, k)
                  THEN Contains(c.body, AttachmentMacro(MermaidFilename(k - 1)))
                  ELSE Contains(c.body, MermaidToken(k - 1))
          /\ \A k \in 1..NumImages :
               /\ Attempted(1, "readImageAttachment", k)
               /\ IF ImageResolved(1, k)
                  THEN Contains(c.body,
                         AttachmentMacro(ImageAttachments(doc.blocks)[k].filename))
                  ELSE Contains(c.body, ImagePlaceholder(k - 1))

InFlightFanOut(r) ==
  CASE r.pc \in {"folderFind", "folderFindAny", "leafFind"} ->
         {[op |-> "findExistingPage", k |-> 0]}
    [] r.pc = "folderFindArchived" -> {[op |-> "findArchivedPage", k |-> 0]}
    [] r.pc \in {"folderCreate", "leafCreate"} -> {[op |-> "createPage", k |-> 0]}
    [] r.pc \in {"folderMove", "leafUpdate", "finalUpdate"} ->
         {[op |-> "updatePage", k |-> 0]}
    [] r.pc = "mermaidRender" ->
         {[op |-> "convertMermaidToSvg", k |-> j] : j \in r.k..NumMermaid}
    [] r.pc = "mermaidUpload" -> {[op |-> "uploadAttachment", k |-> r.k]}
    [] r.pc = "imageRead" ->
         {[op |-> "readImageAttachment", k |-> j] : j \in r.k..NumImages}
    [] r.pc = "imageUpload" -> {[op |-> "uploadBinaryAttachment", k |-> r.k]}
    [] OTHER -> {}

InFlight(r) ==
  CASE r.pc \in {"folderFind", "folderFindAny", "leafFind"} ->
         {[op |-> "findExistingPage", k |-> 0]}
    [] r.pc = "folderFindArchived" -> {[op |-> "findArchivedPage", k |-> 0]}
    [] r.pc \in {"folderCreate", "leafCreate"} -> {[op |-> "createPage", k |-> 0]}
    [] r.pc \in {"folderMove", "leafUpdate", "finalUpdate"} ->
         {[op |-> "updatePage", k |-> 0]}
    [] r.pc = "mermaidRender" -> {[op |-> "convertMermaidToSvg", k |-> r.k]}
    [] r.pc = "mermaidUpload" -> {[op |-> "uploadAttachment", k |-> r.k]}
    [] r.pc = "imageRead" -> {[op |-> "readImageAttachment", k |-> r.k]}
    [] r.pc = "imageUpload" -> {[op |-> "uploadBinaryAttachment", k |-> r.k]}
    [] OTHER -> {}

\* a step of run 1 answers the operation in flight, logs it as its one
\* new call, and only then is the next operation in flight
C11_Step ==
  LET r == run[1]
  IN (run'[1] # r /\ r.pc # "idle") =>
       /\ Len(run'[1].calls) = Len(r.calls) + 1
       /\ \A j \in 1..Len(r.calls) : run'[1].calls[j] = r.calls[j]
       /\ Last(run'[1].calls).op \in {o.op : o \in InFlight(r)}

LeafCreated(i) ==
  SelectSeq(run[i].calls, LAMBDA c : c.op = "createPage" /\ c.stage = "leaf" /\ c.ok)

\* the updatePage calls of run i that submitted a version other than the
\* page's version plus one
StaleUpdates(i) ==
  {j \in 1..Len(run[i].calls) :
     /\ run[i].calls[j].op = "updatePage"
     /\ run[i].calls[j].version # run[i].calls[j].cur + 1}

\* C12: nothing keeps two interleaved runs for the same Document apart.
\* When both found no leaf page under the same parent and both created
\* one, the space holds two active pages of the Document's title under
\* that parent; and an updatePage that submits a stale version is
\* refused, is the last call of its run, and the run fails with it (no
\* retry).
C12_NoMutualExclusion ==
  /\ (/\ Len(LeafCreated(1)) > 0 /\ Len(LeafCreated(2)) > 0
      /\ LeafCreated(1)[1].parent = LeafCreated(2)[1].parent) =>
       LET a == LeafCreated(1)[1].id
           b == LeafCreated(2)[1].id
       IN /\ a # b
          /\ pages[a].title = doc.title /\ pages[b].title = doc.title
          /\ pages[a].status = "current" /\ pages[b].status = "current"
          /\ pages[a].parent = pages[b].parent
  /\ \A i \in Runs :
       \A j \in StaleUpdates(i) :
         /\ ~run[i].calls[j].ok
         /\ j = Len(run[i].calls)
         /\ run[i].pc = "failed"
         /\ run[i].err.kind = "update"

\* both runs have returned, each with a page of its own
C12_Witness ==
  /\ run[1].pc = "done" /\ run[2].pc = "done"
  /\ Len(LeafCreated(1)) > 0 /\ Len(LeafCreated(2)) > 0
  /\ LeafCreated(1)[1].parent = LeafCreated(2)[1].parent
  /\ run[1].returned # run[2].returned

\* the leaf page existed: one run has updated it, the other has failed
\* on the version it had read before
C12_StaleReached ==
  /\ run[1].pc = "done"
  /\ run[2].pc = "failed"
  /\ StaleUpdates(2) # {}
  /\ Last(run[2].calls).stage = "leaf"
  /\ Last(run[2].calls).id = run[1].returned

\* what a rejected sync leaves behind: one notice of the given kind, no
\* transport call, uploadToConfluence never entered
RejectedWith(kind) ==
  LET r == run[1]
  IN /\ r.sync = "rejected"
     /\ r.notices = <<Notice(kind, "", "")>>
     /\ r.calls = <<>>
     /\ r.pc = "idle"
     /\ vault.modified = 0

\* one of the four required settings is empty
SomeSettingEmpty ==
  \/ settings.domain = ""
  \/ settings.username = ""
  \/ settings.apiToken = ""
  \/ settings.spaceId = ""

\* C13 (as claimed): a sync triggered while one of domain, username,
\* apiToken, spaceId is empty ends with the configuration message, with no
\* transport operation and the local file unmodified.
C13_ConfigurationInvalid ==
  (SomeSettingEmpty /\ run[1].sync # "none") => RejectedWith("config")

\* C13 (amended): the same for a sync triggered on an active file; with
\* no active file the sync ends with the no-active-file message, whatever
\* the settings, again with no transport operation and no change of a file.
C13_ConfigurationInvalidAmended ==
  /\ (vault.active /\ SomeSettingEmpty /\ run[1].sync # "none")
       => RejectedWith("config")
  /\ (~vault.active /\ run[1].sync # "none") => RejectedWith("nofile")
  /\ run[1].sync = "rejected" => (~vault.active \/ SomeSettingEmpty)

\* a sync rejected for its spaceId alone
C13_Witness ==
  /\ run[1].sync = "rejected"
  /\ vault.active
  /\ settings.spaceId = ""
  /\ settings.domain # "" /\ settings.username # "" /\ settings.apiToken # ""

\* a step that changes the local file
C14_Step ==
  vault' # vault =>
    /\ run[1].pc = "done"
    /\ run[1].sync = "uploading"
    /\ run[1].returned # NoPage
    /\ settings.addConfluenceUrl
    /\ vault'.modified = 1
    /\ vault'.content = UpdateFrontmatter(run[1].content,
                          ConfluenceUrl(settings, run[1].returned))
    /\ run[1].content = vault.content

\* C14: the local file is written only by the step that follows the
\* successful return of uploadToConfluence, only with addConfluenceUrl on,
\* once, and with the URL of the returned page; a sync that failed or ran
\* with the flag off leaves the file unmodified.
C14_BackReference ==
  /\ [][C14_Step]_vars
  /\ [](vault.modified > 0 =>
          (run[1].sync = "finished" /\ settings.addConfluenceUrl))
  /\ []((run[1].pc = "failed" \/ ~settings.addConfluenceUrl) => vault.modified = 0)

\* the confluence line of a file that had one now holds the page's URL
C14_Witness ==
  /\ vault.modified = 1
  /\ run[1].content.has
  /\ run[1].content.fm[1].key = "confluence"
  /\ vault.content.fm[1] = FmLine("confluence", ConfluenceUrl(settings, run[1].returned))
  /\ Len(vault.content.fm) = Len(run[1].content.fm)

\* C15: with an empty folder path the run issues no folder lookup, no
\* folder create and no re-parent update; its first transport operation
\* is the lookup of the leaf title with no parent, parentId stays null,
\* and every create/update it issues carries no parent.
C15_EmptyFolderPath ==
  LET calls == run[1].calls
  IN Len(doc.folderPath) = 0 =>
       /\ \A c \in Range(calls) : c.stage # "folder"
       /\ Len(calls) > 0 =>
            /\ calls[1].op = "findExistingPage"
            /\ calls[1].stage = "leaf"
            /\ calls[1].title = doc.title
            /\ calls[1].parent = NoPage
       /\ run[1].parentId = NoPage
       /\ \A c \in Range(calls) :
            IsWrite(c) => (~c.hasAncestors /\ c.parent = NoPage)
       /\ \A c \in Range(calls) :
            (c.op = "createPage" /\ c.ok) => pages[c.id].parent = NoPage

\* the leaf was created at the root of a space that holds other pages
C15_Witness ==
  /\ Len(doc.folderPath) = 0
  /\ run[1].pc = "done"
  /\ Len(pages) > 1
  /\ \E c \in Range(run[1].calls) : c.op = "createPage" /\ c.stage = "leaf" /\ c.ok

\* the notices of run i that report an error
ErrorNotices(i) == SelectSeq(run[i].notices, LAMBDA n : n.kind = "error")

\* C16 (as claimed): a sync that ended on a fatal error of
\* uploadToConfluence has shown exactly one error notice, and its text
\* names the failing title or operation.
C16_OneMessagePerFatalError ==
  LET r == run[1]
  IN (r.sync = "caught" /\ r.pc = "failed") =>
       /\ Len(ErrorNotices(1)) = 1
       /\ ErrorNotices(1)[1].title # "" \/ ErrorNotices(1)[1].op # ""

\* C10 (as claimed): a failed lookup or write of the folder chain or of the
\* leaf upsert is the last call of the run, and the run has failed.
C10_FailuresFatal ==
  LET r == run[1]
  IN \A j \in 1..Len(r.calls) :
       (r.calls[j].stage \in {"folder", "leaf"} /\ ~r.calls[j].ok) =>
         (j = Len(r.calls) /\ r.pc = "failed")

\* the number of lexemes tok in the text t
Occurrences(t, tok) == Len(SelectSeq(t, LAMBDA x : x = tok))

\* the stages have all been applied
Transcoded == md.stage = Len(Stages)

\* C17: the stages applied so far are the first ones of the order diagram
\* extraction, image extraction, dataview tags, wiki-links, icon stripping,
\* headings, code blocks, images, tables, task lists, emphasis,
\* strikethrough, links, inline code, horizontal rules, blockquotes, lists,
\* paragraphs, each once; so there are no more code macros than fences that
\* are not mermaid fences, none with the language mermaid, and no more link
\* and image-URL macros than wiki-links and image URLs that are not
\* ![[file.png]] embeds.
C17_FixedOrder ==
  LET order == <<"extractMermaid", "extractImages", "convertDataviewJsTags",
                 "convertWikiLinks", "removeInlineIcons", "convertHeadings",
                 "convertCodeBlocks", "convertImages", "convertTables",
                 "convertTaskLists", "convertTextFormatting",
                 "convertStrikethrough", "convertLinks", "convertInlineCode",
                 "convertHorizontalRules", "convertBlockquotes", "convertLists",
                 "convertParagraphs">>
  IN /\ md.stage <= Len(order)
     /\ md.applied = SubSeq(order, 1, md.stage)
     /\ Occurrences(md.text, "<ac:structured-macro ac:name=code>")
          <= Occurrences(md.input, "python")
     /\ \A j \in 1..Len(md.text) :
          md.text[j] = "<ac:parameter ac:name=language>" => md.text[j + 1] # "mermaid"
     /\ Occurrences(md.text, "<ac:link>") <= Occurrences(md.input, "Note")
     /\ Occurrences(md.text, "<ac:image>") <= Occurrences(md.input, UrlImage)

\* a text with a mermaid fence and an image embed went through all stages
\* and holds the diagram's token and the image's placeholder
C17_Witness ==
  /\ Transcoded
  /\ md.applied = Stages
  /\ Occurrences(md.input, "mermaid") = 1
  /\ Occurrences(md.input, "a.png") = 1
  /\ Occurrences(md.text, "MERMAID-PLACEHOLDER-") = 1
  /\ Occurrences(md.text, "IMAGE-ATTACHMENT-") = 1

\* a text of plain lines: no special syntax, no empty line
PlainText(t) ==
  /\ Len(t) > 0
  /\ \A j \in 1..Len(t) : t[j] \in {"hello", "\n"}
  /\ \A j \in 1..Len(t) : t[j] = "\n" => (j > 1 /\ j < Len(t) /\ t[j + 1] # "\n")

\* C18 (as claimed): a plain text is transcoded to an opening paragraph
\* tag, the text unchanged, a closing paragraph tag, and nothing else.
C18_PlainTextOneParagraph ==
  (Transcoded /\ PlainText(md.input)) =>
    md.text = <<"<p>">> \o md.input \o <<"</p>">>

\* C19 (as claimed): a text that is exactly one fenced code block with
\* language python and content print(1) is transcoded to exactly one code
\* macro with that language and exactly that content as CDATA body, with no
\* paragraph tag around it.
C19_CodeBlockRoundTrip ==
  (Transcoded /\ md.input = PythonFence) =>
    md.text = CodeMacro("python", <<"print(1)">>)

\* C20 (as claimed): the task lines "- [x] T" and "- [X] T" are transcoded
\* to a task macro with status complete and body T, "- [ ] T" to one with
\* status incomplete, and none of them to a bullet-list item.
C20_TaskLines ==
  \A box \in {"[x] ", "[X] ", "[ ] "} :
    (Transcoded /\ md.input = <<"- ", box, "T">>) =>
      /\ md.text = TaskMacro(IF box = "[ ] " THEN "incomplete" ELSE "complete", <<"T">>)
      /\ Occurrences(md.text, "<li>") = 0

\* the lexemes between the CDATA delimiters of the code macro of t
CodeBody(t) ==
  SubSeq(t, IndexFrom(t, 1, "<![CDATA[") + 1,
            IndexFrom(t, 1, "</ac:plain-text-body>") - 2)

\* the code of a text that is one fenced block: what lies between the line
\* of the opening fence and the closing fence
RawCode(t) == SubSeq(t, 4, Len(t) - 1)

\* C21 (as claimed): once convertCodeBlocks has run on a text that is one
\* fenced code block, the text is one code macro and the lexemes between
\* its CDATA delimiters are the code of the block, unchanged by every later
\* stage, whatever the code holds.
C21_CodeVerbatim ==
  (md.input \in CodeDocuments /\ "convertCodeBlocks" \in Range(md.applied)) =>
    /\ Occurrences(md.text, "<ac:structured-macro ac:name=code>") = 1
    /\ CodeBody(md.text) = RawCode(md.input)

\* the lines of the text t
LinesOf(t) == SplitLines(t)

\* a text whose first line is a root item and whose other lines are
\* indented: sub-items and continuation lines of that item
OneItemText(t) ==
  LET ls == LinesOf(t)
  IN /\ IndentOf(ls[1]) = 0
     /\ OlMatch(ls[1]) \/ UlMatch(ls[1])
     /\ \A j \in 2..Len(ls) : IndentOf(ls[j]) > 0

\* a text of root items of one kind, one a line
OneRunText(t) ==
  LET ls == LinesOf(t)
  IN \/ \A j \in 1..Len(ls) : IndentOf(ls[j]) = 0 /\ OlMatch(ls[j])
     \/ \A j \in 1..Len(ls) : IndentOf(ls[j]) = 0 /\ UlMatch(ls[j])

\* C22 (as claimed): convertLists puts the indented lines that follow a
\* root item, ordered or unordered, into the list item of that item, so a
\* root item with its indented lines becomes one line holding one list
\* element with one root item; and a run of root items of one kind becomes
\* exactly one list element with one item a line.
C22_ListItemsAccumulate ==
  md.applied = <<"convertLists">> =>
    /\ OneItemText(md.input) =>
         /\ Len(LinesOf(md.text)) = 1
         /\ md.text[1] \in {"<ol>", "<ul>"}
         /\ md.text[Len(md.text)] \in {"</ol>", "</ul>"}
         /\ Occurrences(md.text, "  ") = 0
    /\ OneRunText(md.input) =>
         /\ Len(LinesOf(md.text)) = 1
         /\ Occurrences(md.text, "<ol>") + Occurrences(md.text, "<ul>") = 1
         /\ Occurrences(md.text, "<li>") = Len(LinesOf(md.input))

\* the body holds the token of image n as a whole: no digit follows it
HoldsImageToken(body, n) ==
  \E j \in 1..Len(body) :
    /\ MatchAt(body, j, ImagePlaceholder(n))
    /\ LET e == j + Len(ImagePlaceholder(n))
       IN e > Len(body) \/ body[e] \notin {Digits(d)[1] : d \in 0..9}

\* C23 (as claimed): the image placeholders have the indices 0, 1, .. in
\* document order and pairwise distinct tokens, and while the image loop
\* runs the body still holds, as a whole, the token of every image that the
\* loop has not reached yet: resolving one placeholder rewrites no other
\* token.
C23_ExactSubstitution ==
  LET r == run[1]
      imgs == ImageAttachments(doc.blocks)
  IN /\ \A a, b \in 1..Len(imgs) :
          /\ imgs[a].placeholder = ImagePlaceholder(a - 1)
          /\ a # b => imgs[a].placeholder # imgs[b].placeholder
     /\ r.pc \in {"imageRead", "imageUpload"} =>
          \A m \in r.k..Len(imgs) : HoldsImageToken(r.updatedContent, m - 1)

\* the place of a call in the order folder chain, leaf upsert, placeholder
\* loops, final update
StageRank(c) ==
  CASE c.stage = "folder" -> 1
    [] c.stage = "leaf" -> 2
    [] c.stage = "placeholder" -> 3
    [] OTHER -> 4

\* the place of a placeholder call in the order diagrams, images
KindRank(c) == IF c.op \in {"convertMermaidToSvg", "uploadAttachment"} THEN 1 ELSE 2

\* the successful create or update of the leaf page
LeafWritten(c) == c.stage = "leaf" /\ c.op \in {"createPage", "updatePage"} /\ c.ok

ImmediateParent(p) == IF Len(p.ancestors) = 0 THEN NoPage ELSE p.ancestors[Len(p.ancestors)]

\* C25: findExistingPage with a parentId returns a result that is not
\* archived and whose last ancestor is parentId, the first such, and
\* nothing when every result is archived, has no ancestors or has another
\* immediate parent; with no parentId it returns the first result that is
\* not archived, whatever its parent, and nothing when there is none.
C25_FindExistingPage ==
  LET rs == lookup.results
      page == lookup.returned.page
      Fits(p) == /\ p.status # "archived"
                 /\ lookup.parentId # NoPage =>
                      (Len(p.ancestors) > 0 /\ ImmediateParent(p) = lookup.parentId)
  IN (lookup.pc = "returned" /\ lookup.outcome = "ok") =>
       /\ ~lookup.returned.fatal
       /\ IF \E j \in 1..Len(rs) : Fits(rs[j])
          THEN \E j \in 1..Len(rs) :
                 /\ Fits(rs[j])
                 /\ \A h \in 1..(j - 1) : ~Fits(rs[h])
                 /\ page = rs[j]
          ELSE page = Null

\* a call with a parentId returned the second result: the first has that
\* parent too but is archived
C25_Witness ==
  /\ lookup.pc = "returned"
  /\ lookup.parentId = 2
  /\ Len(lookup.results) = 2
  /\ lookup.results[1].status = "archived"
  /\ ImmediateParent(lookup.results[1]) = 2
  /\ lookup.returned.page = lookup.results[2]
  /\ lookup.returned.page.ancestors = <<1, 2>>

\* a call without parentId returned a result that has a parent
C25_WitnessNoParent ==
  /\ lookup.pc = "returned"
  /\ lookup.parentId = NoPage
  /\ lookup.returned.page # Null
  /\ ImmediateParent(lookup.returned.page) = 1

\* no page of the space is among its own ancestors
Acyclic(pgs) ==
  \A id \in 1..Len(pgs) : id \notin Range(Ancestors(pgs, id, Len(pgs)))

\* C26 (as claimed): the parent relation of the space stays acyclic, and no
\* update the run issues names as parent the page itself or, at the time of
\* the call, a page below it.
C26_NoCyclicUpdate ==
  LET calls == run[1].calls
  IN /\ Acyclic(pages)
     /\ \A j \in 1..Len(calls) :
          (calls[j].op = "updatePage" /\ calls[j].hasAncestors) =>
            /\ calls[j].parent # calls[j].id
            /\ (j = Len(calls) /\ ~calls[j].ok) =>
                 calls[j].id \notin Range(Ancestors(pages, calls[j].parent, Len(pages)))

C27_Step ==
  LET r == run[1]
      id == r.anyPage.id
  IN (r.pc = "folderMove" /\ run'[1].pc \notin {"folderMove", "failed"}) =>
       /\ Len(pages') = Len(pages)
       /\ \A k \in 1..Len(pages) : k # id => pages'[k] = pages[k]
       /\ pages'[id].title = pages[id].title
       /\ pages'[id].status = pages[id].status
       /\ pages'[id].version = pages[id].version + 1
       /\ pages'[id].parent = r.currentParentId
       /\ pages'[id].body = FolderBody
       /\ attachments' = attachments

\* C27: the successful re-parent update of a folder segment keeps the
\* page's id and title, raises its version by one, sets its parent to the
\* current parent and its body to the folder sentence, and leaves every
\* other page as it was.
C27_ReparentFrame == [][C27_Step]_vars

\* a page with another body and another parent was re-parented
C27_Witness ==
  \E j \in 1..Len(run[1].calls) :
    LET c == run[1].calls[j]
    IN /\ c.op = "updatePage" /\ c.stage = "folder" /\ c.ok
       /\ j = Len(run[1].calls)
       /\ pages[c.id].body = FolderBody
       /\ pages[c.id].parent = c.parent
       /\ c.parent # NoPage
       /\ pages[c.id].version = c.cur + 1
       /\ Len(pages) > 1

\* the updatePage calls of run i that follow its leaf upsert
UpdatesAfterUpsert(i) ==
  LET calls == run[i].calls
      at == SelectSeq([j \in 1..Len(calls) |-> j], LAMBDA j : LeafWritten(calls[j]))
  IN IF Len(at) = 0 THEN <<>>
     ELSE SelectSeq(SubSeq(calls, at[1] + 1, Len(calls)), LAMBDA c : c.op = "updatePage")

\* no placeholder of the run was resolved
NoneResolved ==
  /\ \A k \in 1..NumMermaid : ~MermaidResolved(1, k)
  /\ \A k \in 1..NumImages : ~ImageResolved(1, k)

\* C28: a run that went through issued, after the leaf upsert, one update
\* if the document has a diagram or an image and none otherwise; a run
\* never issues more; the update is on the leaf page, and when no
\* placeholder was resolved its body is the body the leaf upsert sent.
C28_FinalUpdateCount ==
  LET r == run[1]
      ups == UpdatesAfterUpsert(1)
      lw == LeafWrites(1)
  IN /\ Len(ups) <= (IF NumMermaid + NumImages > 0 THEN 1 ELSE 0)
     /\ r.pc = "done" => Len(ups) = (IF NumMermaid + NumImages > 0 THEN 1 ELSE 0)
     /\ (r.pc = "failed" /\ Last(r.calls).stage \in {"placeholder", "final"}) => Len(ups) = 1
     /\ \A j \in 1..Len(ups) :
          /\ ups[j].stage = "final"
          /\ ups[j].id = lw[1].id
          /\ NoneResolved => ups[j].body = lw[1].body

\* every placeholder of a document with a diagram and an image failed and
\* the run made its final update with the body of the leaf upsert
C28_Witness ==
  /\ run[1].pc = "done"
  /\ NumMermaid = 1 /\ NumImages = 1
  /\ NoneResolved
  /\ Len(UpdatesAfterUpsert(1)) = 1
  /\ Last(run[1].calls).ok
  /\ pages[Last(run[1].calls).id].body = LeafWrites(1)[1].body

\* the file names of the embed macros of a body
EmbeddedFiles(body) ==
  {SubSeq(body, j + 1, IndexFrom(body, j, "/></ac:image>") - 1) :
     j \in {h \in 1..Len(body) :
              body[h] = "<ac:image ac:width=500><ri:attachment ri:filename="}}

\* the files run i has uploaded to page id so far
Uploaded(i, id) ==
  {c.body : c \in {d \in Range(run[i].calls) :
                     /\ d.op \in {"uploadAttachment", "uploadBinaryAttachment"}
                     /\ d.ok /\ d.id = id}}

\* every embed macro of the body under construction and of the final
\* update names a file the run has uploaded to the leaf page
C29_EmbedsUploaded ==
  LET r == run[1]
  IN /\ r.pc \notin {"idle", "failed"} =>
          EmbeddedFiles(r.updatedContent) \subseteq Uploaded(1, r.page.id)
     /\ \A c \in Range(FinalCalls(1)) :
          /\ c.body = r.updatedContent
          /\ EmbeddedFiles(c.body) \subseteq Uploaded(1, c.id)

\* the body under construction changes only in the step of a successful
\* upload, by the macro of the uploaded file
C29_Step ==
  LET r == run[1]
  IN (r.pc \in {"mermaidRender", "mermaidUpload", "imageRead", "imageUpload"}
      /\ run'[1].updatedContent # r.updatedContent) =>
       LET c == Last(run'[1].calls)
       IN /\ Len(run'[1].calls) = Len(r.calls) + 1
          /\ c.op \in {"uploadAttachment", "uploadBinaryAttachment"}
          /\ c.ok
          /\ EmbeddedFiles(run'[1].updatedContent)
               = EmbeddedFiles(r.updatedContent) \cup {c.body}

\* C29: every embed macro that placeholder resolution puts into the body
\* names a file whose upload to the leaf page succeeded earlier in the run,
\* and nothing is put into the body for a placeholder whose render, read or
\* upload failed.
C29_EmbedsOnlyAfterUpload == []C29_EmbedsUploaded /\ [][C29_Step]_vars

\* the diagram was resolved, the image failed, and the final body holds the
\* diagram's macro and the image's token
C29_Witness ==
  /\ run[1].pc = "done"
  /\ NumMermaid = 1 /\ NumImages = 1
  /\ MermaidResolved(1, 1) /\ ~ImageResolved(1, 1)
  /\ EmbeddedFiles(Last(run[1].calls).body) = {MermaidFilename(0)}
  /\ Contains(Last(run[1].calls).body, ImagePlaceholder(0))

\* the folder calls of run i
FolderCalls(i) == SelectSeq(run[i].calls, LAMBDA c : c.stage = "folder")

\* the positions at which the calls of a segment start: the lookup under
\* the current parent, the first call or a lookup with a parent
SegmentStarts(fc) ==
  SelectSeq([j \in 1..Len(fc) |-> j],
            LAMBDA j : fc[j].op = "findExistingPage" /\ (j = 1 \/ fc[j].parent # NoPage))

\* the calls of segment s
SegmentCalls(fc, s) ==
  LET st == SegmentStarts(fc)
  IN SubSeq(fc, st[s], IF s < Len(st) THEN st[s + 1] - 1 ELSE Len(fc))

Ops(q) == [j \in 1..Len(q) |-> q[j].op]

C30_Pages ==
  /\ Len(pages') >= Len(pages)
  /\ \A k \in 1..Len(pages) : pages'[k].status = pages[k].status

\* the chain resolution of each segment is one of: descend into the page
\* found under the current parent; re-parent update; archived-title error;
\* create
C30_Segments ==
  LET r == run[1]
      fc == FolderCalls(1)
      n == Len(SegmentStarts(fc))
      resolved == Len(fc) < Len(r.calls) \/ r.pc = "leafFind"
  IN /\ n <= Len(doc.folderPath)
     /\ Len(fc) > 0 => SegmentStarts(fc)[1] = 1
     /\ resolved => n = Len(doc.folderPath)
     /\ \A s \in 1..n :
          LET q == SegmentCalls(fc, s)
              last == q[Len(q)]
              over == s < n \/ resolved
          IN /\ q[1].title = doc.folderPath[s]
             /\ \A j \in 1..Len(q) : q[j].title = q[1].title
             /\ Ops(q) \in {<<"findExistingPage">>,
                             <<"findExistingPage", "findExistingPage">>,
                             <<"findExistingPage", "findExistingPage", "updatePage">>,
                             <<"findExistingPage", "findExistingPage", "findArchivedPage">>,
                             <<"findExistingPage", "findExistingPage", "findArchivedPage",
                               "createPage">>}
             /\ Len(SelectSeq(q, IsWrite)) <= 1
             /\ Len(q) - Len(SelectSeq(q, IsWrite)) <= 3
             /\ over =>
                  /\ last.ok
                  /\ Len(q) = 1 \/ last.op \in {"updatePage", "createPage"}
             /\ (s = n /\ r.pc = "failed" /\ r.err.kind = "archived") =>
                  Ops(q) = <<"findExistingPage", "findExistingPage", "findArchivedPage">>

====
